---- MODULE Spec2Model ----
(***************************************************************************)
(* Model of the scan-classify-aggregate-persist engine of MARK:            *)
(*   MLAnalyzer.analyze_single_file / analyze_project /                    *)
(*   analyze_projects_set / _save_metrics_csv                              *)
(*   (src/modules/analyzer/ml_analyzer.py).                                *)
(*                                                                         *)
(* Names and paths are sequences of character tokens, so that string       *)
(* concatenation, split("_") and endswith() are computed, not assumed.     *)
(* Maintainability and averages are fixed-point numbers in hundredths      *)
(* (71.89 is 7189), so round(x, 2) is a division rounded to the nearest    *)
(* hundredth.                                                              *)
(***************************************************************************)
EXTENDS Integers, Sequences, FiniteSets, TLC

(* ------------------------------ bounds -------------------------------- *)
\* directory entries os.listdir yields and files os.walk yields, over one run
MaxEntries == 3
MaxFiles == 2
\* direct _save_metrics_csv calls over one behaviour
MaxSaves == 3
\* refreshes of the output tree asked for through the views
MaxRefresh == 2
\* calls of analyze_projects_set on one analyzer object
MaxRuns == 2
\* clicks on the start button of the config view
MaxStarts == 4

(* ------------------------- generic helpers ---------------------------- *)
RECURSIVE SumSeq(_)
SumSeq(s) == IF s = <<>> THEN 0 ELSE Head(s) + SumSeq(Tail(s))

Last(seq) == seq[Len(seq)]

SeqMap(Op(_), s) == [i \in 1..Len(s) |-> Op(s[i])]

Range(s) == {s[i] : i \in 1..Len(s)}

(* ------------------------------ roles --------------------------------- *)
PRODUCER == "producer"
CONSUMER == "consumer"
METRICS == "metrics"
AnalyzerRole == {PRODUCER, CONSUMER, METRICS}

(* --------------------- text and source-line count --------------------- *)
Whitespace == {" ", "\t"}

RECURSIVE LStrip(_)
LStrip(line) ==
    IF line = <<>> THEN <<>>
    ELSE IF Head(line) \in Whitespace THEN LStrip(Tail(line)) ELSE line

RECURSIVE RStrip(_)
RStrip(line) ==
    IF line = <<>> THEN <<>>
    ELSE IF line[Len(line)] \in Whitespace
         THEN RStrip(SubSeq(line, 1, Len(line) - 1)) ELSE line

Strip(line) == RStrip(LStrip(line))

StartsWithHash(line) == line # <<>> /\ Head(line) = "#"

CountsAsSloc(line) == Strip(line) # <<>> /\ ~StartsWithHash(Strip(line))

RECURSIVE Sloc(_)
Sloc(code) ==
    IF code = <<>> THEN 0
    ELSE (IF CountsAsSloc(Head(code)) THEN 1 ELSE 0) + Sloc(Tail(code))

(* ------------------------- rounding, averages ------------------------- *)
\* round(n / d) to the nearest integer, ties to even (Python's round)
RoundDiv(n, d) ==
    LET q == n \div d
        r == n % d
    IN  IF 2 * r < d THEN q
        ELSE IF 2 * r > d THEN q + 1
        ELSE IF q % 2 = 0 THEN q ELSE q + 1

\* a variant that cuts the quotient off instead of rounding it
CcAvgTruncated(project_cc) ==
    IF project_cc # <<>>
    THEN (100 * SumSeq(project_cc)) \div Len(project_cc)
    ELSE 0

\* cc_avg, in hundredths
CcAvg(project_cc) ==
    IF project_cc # <<>>
    THEN RoundDiv(100 * SumSeq(project_cc), Len(project_cc))
    ELSE 0

MiTimesSloc(p) == p[1] * p[2]

MiOfPair(p) == p[1]

\* a variant that averages over the files, ignoring their sizes
MiAvgUnweighted(project_mi, project_sloc) ==
    IF project_mi # <<>>
    THEN RoundDiv(SumSeq(SeqMap(MiOfPair, project_mi)), Len(project_mi))
    ELSE 0

\* mi_avg, in hundredths (the mi of each pair is in hundredths already)
MiAvg(project_mi, project_sloc) ==
    LET total_sloc == SumSeq(project_sloc)
    IN  IF total_sloc > 0
        THEN RoundDiv(SumSeq(SeqMap(MiTimesSloc, project_mi)), total_sloc)
        ELSE 0

(* --------------------- the files a walk can meet ---------------------- *)
\* SignatureMatch dictionaries as check_library returns them
KwFit == [library |-> "sklearn", keyword |-> "fit", line_number |-> 68]
KwTrain == [library |-> "torch", keyword |-> "train", line_number |-> 10]
KwLoad == [library |-> "torch", keyword |-> "load", line_number |-> 12]

\* outcomes of self.check_library(file): it returns a triple or raises
CheckNone == [ok |-> TRUE, libraries |-> <<>>, keywords |-> <<>>,
              list_load_keywords |-> <<>>]
CheckLibOnly == [ok |-> TRUE, libraries |-> <<"x">>, keywords |-> <<>>,
                 list_load_keywords |-> <<>>]
CheckOne == [ok |-> TRUE, libraries |-> <<"sklearn">>, keywords |-> <<KwFit>>,
             list_load_keywords |-> <<>>]
CheckThree == [ok |-> TRUE, libraries |-> <<"torch">>,
               keywords |-> <<KwTrain, KwLoad, KwTrain>>,
               list_load_keywords |-> <<"load_model">>]
CheckRaises == [ok |-> FALSE, libraries |-> <<>>, keywords |-> <<>>,
                list_load_keywords |-> <<>>]

\* file contents: a sequence of lines, a line is a sequence of characters
LineCode == <<"a">>
LineIndented == <<" ", "a", " ">>
LineComment == <<"#", " ", "a">>
LineIndentedComment == <<" ", "\t", "#">>
LineBlank == <<" ", " ">>
LineEmpty == <<>>
LineTrailingComment == <<"a", " ", "#">>

TextEmpty == <<>>
TextComments == <<LineComment, LineEmpty, LineBlank, LineIndentedComment>>
TextTwo == <<LineCode, LineComment, LineEmpty, LineIndented>>
TextEight == <<LineCode, LineCode, LineIndented, LineComment, LineCode,
               LineTrailingComment, LineBlank, LineCode, LineIndented,
               LineCode>>

\* outcomes of cc_visit(code) and mi_visit(code): a value, or an exception
Block(c) == [complexity |-> c]
CcFails == [ok |-> FALSE, blocks |-> <<>>]
CcOf(cs) == [ok |-> TRUE, blocks |-> SeqMap(Block, cs)]
MiFails == [ok |-> FALSE, val |-> 0]
MiOf(v) == [ok |-> TRUE, val |-> v]

File(valid, isfile, check, readable, text, cc, mi) ==
    [valid |-> valid, isfile |-> isfile, check |-> check,
     readable |-> readable, text |-> text, cc |-> cc, mi |-> mi]

\* The files the walk of a component directory can yield.  A file of
\* comments has no block and maintainability 100 when radon measures it; the
\* last profile is the file c.py of test_analyze_project_metrics_mixed_files,
\* for which the measuring step reports a block although sloc is 0.
FileProfiles ==
    { File(FALSE, TRUE, CheckOne, TRUE, TextTwo, CcOf(<<1>>), MiOf(10000)),
      File(TRUE, TRUE, CheckRaises, TRUE, TextTwo, CcOf(<<1>>), MiOf(10000)),
      File(TRUE, TRUE, CheckThree, FALSE, TextTwo, CcOf(<<1>>), MiOf(10000)),
      File(TRUE, TRUE, CheckOne, TRUE, TextTwo, CcOf(<<1>>), MiOf(10000)),
      File(TRUE, TRUE, CheckNone, TRUE, TextEight, CcOf(<<2, 2>>), MiOf(7189)),
      File(TRUE, TRUE, CheckThree, TRUE, TextTwo, CcFails, MiFails),
      File(TRUE, TRUE, CheckNone, TRUE, TextComments, CcOf(<<>>), MiOf(10000)),
      File(TRUE, TRUE, CheckNone, TRUE, TextComments, CcOf(<<1>>), MiOf(2000)) }

(* ------------------------ analyze_single_file ------------------------- *)
\* the 6-tuple analyze_single_file returns
Result(libraries, keywords, list_load_keywords, cc_blocks, mi_val, sloc_val) ==
    [libraries |-> libraries, keywords |-> keywords,
     list_load_keywords |-> list_load_keywords, cc_blocks |-> cc_blocks,
     mi_val |-> mi_val, sloc_val |-> sloc_val]

EmptyResult == Result(<<>>, <<>>, <<>>, <<>>, 0, 0)

\* what a call did: the steps it invoked, whether an exception left it,
\* and the tuple it returned (meaningless when raised)
Outcome(calls, raised, ret) == [calls |-> calls, raised |-> raised, ret |-> ret]

\* a variant in which the existence test follows the signature matching
NotAFileAfterMatching(f) ==
    Outcome(<<"check_library", "isfile">>, FALSE,
            Result(f.check.libraries, f.check.keywords,
                   f.check.list_load_keywords, <<>>, 0, 0))

\* lines 93-94: the path is not an existing file
NotAFile(f) == Outcome(<<"isfile">>, FALSE, EmptyResult)

\* a variant in which a failed read discards the matches as well
ReadFailedDropsMatches(f) ==
    Outcome(<<"isfile", "check_library", "open">>, FALSE, EmptyResult)

\* lines 98-103: open()/read() raised
ReadFailed(f) ==
    Outcome(<<"isfile", "check_library", "open">>, FALSE,
            Result(f.check.libraries, f.check.keywords,
                   f.check.list_load_keywords, <<>>, 0, 0))

\* a variant in which a failure of cc_visit ends the measuring
MeasuredStopsAtCcFailure(f) ==
    Outcome(<<"isfile", "check_library", "open", "cc_visit", "mi_visit">>, FALSE,
            Result(f.check.libraries, f.check.keywords,
                   f.check.list_load_keywords,
                   IF f.cc.ok THEN f.cc.blocks ELSE <<>>,
                   IF f.cc.ok /\ f.mi.ok THEN f.mi.val ELSE 0,
                   IF f.cc.ok THEN Sloc(f.text) ELSE 0))

\* lines 105-130: the text was read
Measured(f) ==
    Outcome(<<"isfile", "check_library", "open", "cc_visit", "mi_visit">>, FALSE,
            Result(f.check.libraries, f.check.keywords,
                   f.check.list_load_keywords,
                   IF f.cc.ok THEN f.cc.blocks ELSE <<>>,
                   IF f.mi.ok THEN f.mi.val ELSE 0,
                   Sloc(f.text)))

\* the classes of analyzer: MLMetricsAnalyzer, and the subclasses whose
\* check_library matches the signatures of ML libraries
MLMetricsAnalyzer == "MLMetricsAnalyzer"
SignatureAnalyzer == "SignatureAnalyzer"
AnalyzerClass == {SignatureAnalyzer, MLMetricsAnalyzer}

\* a variant in which the metrics analyzer matches signatures as well
check_library_matching(cls, f) == f.check

\* self.check_library(file): MLMetricsAnalyzer returns [], [], [] for every
\* file, the other classes what the signatures of the file give
check_library(cls, f) == IF cls = MLMetricsAnalyzer THEN CheckNone ELSE f.check

\* the file as an analyzer of class cls meets it
Inspected(cls, f) == [f EXCEPT !.check = check_library(cls, f)]

analyze_single_file(f) ==
    IF ~f.isfile THEN NotAFile(f)
    ELSE IF ~f.check.ok
         \* line 96 is outside every try block: the exception propagates
         THEN Outcome(<<"isfile", "check_library">>, TRUE, EmptyResult)
    ELSE IF ~f.readable THEN ReadFailed(f)
    ELSE Measured(f)

(* ------------------------- names and paths ---------------------------- *)
input_folder == <<"IN">>

\* os.path.join
PathJoin(a, b) == a \o <<"/">> \o b

\* f"{project}_{directory}_ml_{self.role_str}.csv"
DirectoryCsv(p, d, r) == p \o <<"_">> \o d \o <<"_", "ml", "_", r, ".csv">>

ResultsCsv == <<"results.csv">>

\* write (create or replace) one file of a folder
WriteFile(folder, name, content) == (name :> content) @@ folder

NoFiles == <<>>

\* a variant that writes the table even when it is empty
PersistTableAlways(folder, name, table) == WriteFile(folder, name, table)

\* lines 175-182: if not df.empty: df.to_csv(...)
PersistTable(folder, name, table) ==
    IF table # <<>> THEN WriteFile(folder, name, table) ELSE folder

(* --------------------------- metrics files ---------------------------- *)
DigitChars == <<"0", "1", "2", "3", "4", "5", "6", "7", "8", "9">>

Digits == Range(DigitChars)

DigitVal(c) == (CHOOSE i \in 1..10 : DigitChars[i] = c) - 1

MetricsSuffix == <<"_", "metrics.csv">>

\* str.endswith
EndsWith(name, suffix) ==
    /\ Len(name) >= Len(suffix)
    /\ SubSeq(name, Len(name) - Len(suffix) + 1, Len(name)) = suffix

\* name.split("_")[0]
RECURSIVE SplitFirst(_)
SplitFirst(name) ==
    IF name = <<>> \/ Head(name) = "_" THEN <<>>
    ELSE <<Head(name)>> \o SplitFirst(Tail(name))

\* str.isdigit
IsDigit(str) == str # <<>> /\ \A i \in 1..Len(str) : str[i] \in Digits

\* int(str) of a digit string
RECURSIVE ParseInt(_)
ParseInt(str) ==
    IF str = <<>> THEN 0
    ELSE 10 * ParseInt(SubSeq(str, 1, Len(str) - 1)) + DigitVal(str[Len(str)])

\* str(n) of a natural number
RECURSIVE FormatInt(_)
FormatInt(n) ==
    IF n < 10 THEN <<DigitChars[n + 1]>>
    ELSE FormatInt(n \div 10) \o <<DigitChars[(n % 10) + 1]>>

\* the k-th file name the walk of a directory yields
FileName(k) == <<"f">> \o FormatInt(k)

\* the k-th name os.listdir(input_folder) yields
RootName(k) ==
    IF k = 1 THEN <<"a", "_", "b">>
    ELSE IF k = 2 THEN <<"a">>
    ELSE <<"p">> \o FormatInt(k)

\* the k-th name os.listdir(project_path) yields in the j-th root entry
ProjEntryName(j, k) ==
    IF (j + k) % 2 = 0 /\ k <= 2 THEN <<"c">>
    ELSE IF k <= 2 THEN <<"b", "_", "c">>
    ELSE <<"d">> \o FormatInt(k)

\* a variant that takes the smallest element
SetMaxAsMin(S) == CHOOSE m \in S : \A x \in S : m <= x

\* max(...) of line 69
SetMax(S) == CHOOSE m \in S : \A x \in S : x <= m

\* lines 63-66: the files of the metrics directory taken as numbered ones
ExistingMetrics(files) ==
    {n \in DOMAIN files : EndsWith(n, MetricsSuffix) /\ IsDigit(SplitFirst(n))}

\* a variant that reuses the largest index
NextIndexNoIncrement(existing) ==
    IF existing # {}
    THEN SetMax({ParseInt(SplitFirst(n)) : n \in existing})
    ELSE 1

\* lines 68-71
NextIndex(existing) ==
    IF existing # {}
    THEN SetMax({ParseInt(SplitFirst(n)) : n \in existing}) + 1
    ELSE 1

\* f"{next_index}_metrics.csv"
MetricsCsv(next_index) == FormatInt(next_index) \o MetricsSuffix

\* a variant that leaves the oldest record out of the file
save_metrics_csv_tail(r, metrics, dir) ==
    IF r # METRICS THEN dir
    ELSE IF metrics = <<>> THEN dir
    ELSE [exists |-> TRUE,
          files |-> WriteFile(dir.files,
                              MetricsCsv(NextIndex(ExistingMetrics(dir.files))),
                              Tail(metrics))]

\* _save_metrics_csv: the metrics directory after the call
save_metrics_csv(r, metrics, dir) ==
    IF r # METRICS THEN dir
    ELSE IF metrics = <<>> THEN dir
    ELSE [exists |-> TRUE,
          files |-> WriteFile(dir.files,
                              MetricsCsv(NextIndex(ExistingMetrics(dir.files))),
                              metrics)]

\* one entry of the history of file writes
Written(folder, name) == [folder |-> folder, name |-> name]

\* the write _save_metrics_csv performs (line 75), if any
MetricsWrites(r, metrics, dir) ==
    IF r # METRICS \/ metrics = <<>> THEN <<>>
    ELSE <<Written("metrics",
                   MetricsCsv(NextIndex(ExistingMetrics(dir.files))))>>

(* ---------------------------- the rows -------------------------------- *)
\* lines 166-173: one ClassificationRow
Row(p, d, r, file_path, keyword) ==
    [ProjectName |-> p \o <<"/">> \o d,
     flag |-> <<"Is ML ", r>>,
     value |-> "Yes",
     libraries |-> keyword.library,
     where |-> file_path,
     keyword |-> keyword.keyword,
     line_number |-> keyword.line_number]

\* a variant that emits one row per matching file
RowsOfFileOnePerFile(p, d, r, file_path, keywords) ==
    IF keywords = <<>> THEN <<>>
    ELSE <<Row(p, d, r, file_path, keywords[1])>>

\* a variant that also reports the files without a match
RowsOfFileWithNo(p, d, r, file_path, keywords) ==
    IF keywords = <<>>
    THEN <<[ProjectName |-> p \o <<"/">> \o d, flag |-> <<"Is ML ", r>>,
            value |-> "No", libraries |-> "", where |-> file_path,
            keyword |-> "", line_number |-> 0]>>
    ELSE [i \in 1..Len(keywords) |-> Row(p, d, r, file_path, keywords[i])]

\* lines 164-173: the rows one inspected file adds
RowsOfFile(p, d, r, file_path, keywords) ==
    [i \in 1..Len(keywords) |-> Row(p, d, r, file_path, keywords[i])]

\* a variant that keeps only the table of the last directory
GlobalRowsLastOnly(all, df) == IF df # <<>> THEN df ELSE all

\* lines 219-220: all_rows.extend(df.to_dict(orient="records"))
GlobalRows(all, df) == IF df # <<>> THEN all \o df ELSE all

\* line 157
Complexities(cc_blocks) == [i \in 1..Len(cc_blocks) |-> cc_blocks[i].complexity]

\* lines 232-236
MetricsRecord(p, cc, mi, sloc) ==
    [ProjectName |-> p, CC_avg |-> CcAvg(cc), MI_avg |-> MiAvg(mi, sloc)]

\* a variant that skips the projects without any metric sample
RecordProjectIfSampled(r, metrics, p, cc, mi, sloc) ==
    IF r = METRICS /\ (cc # <<>> \/ mi # <<>>)
    THEN Append(metrics, MetricsRecord(p, cc, mi, sloc))
    ELSE metrics

\* lines 224-236: the record a finished project adds to project_metrics
RecordProject(r, metrics, p, cc, mi, sloc) ==
    IF r = METRICS THEN Append(metrics, MetricsRecord(p, cc, mi, sloc))
    ELSE metrics

\* CodeMetrics.save_csv: the metrics directory after the call
save_csv(metrics_list, dir) ==
    IF metrics_list = <<>> THEN dir
    ELSE [exists |-> TRUE,
          files |-> WriteFile(dir.files,
                              MetricsCsv(NextIndex(ExistingMetrics(dir.files))),
                              metrics_list)]

(* ------------------------------ state --------------------------------- *)
VARIABLES
    role,             \* self.role, fixed at construction
    project_metrics,  \* self.project_metrics
    pc,               \* where analyze_projects_set stands
    runs,             \* calls started on this analyzer
    rootSeen,         \* entries os.listdir(input_folder) has yielded, this run
    projSeen,         \* entries os.listdir(project_path) has yielded
    project,          \* loop variable of line 193
    directory,        \* loop variable dir_path of line 200
    all_rows,         \* analyze_projects_set local
    project_cc,       \* analyze_projects_set locals, per project
    project_mi,
    project_sloc,
    rows,             \* analyze_project locals
    all_cc_values,
    mi_weighted,
    sloc_list,
    nwalk,            \* files os.walk has yielded in this directory
    outFiles,         \* files of output_folder: name -> table
    metricsDir,       \* output_folder/metrics: [exists, files: name -> table]
    final_df,         \* the value analyze_projects_set returned
    trace,            \* history: the files enumerated so far
    listed,           \* history: directory entries listed so far
    writes,           \* history: the files written so far, in order
    metricsInit,      \* history: the metrics directory at the start
    metricsBase,      \* history: Len(project_metrics) when this run started
    analyzer_class,   \* the class of self, fixed at construction
    root_exists,      \* whether input_folder is an existing directory
    pipeline,         \* a PipelineService with the call of run_pipeline on it
    gui,              \* the output location, its OutputReader and AppController
    calls,            \* history: the calls made on the analyzer, in order
    savers,           \* analyzers inside _save_metrics_csv at the same time
    ctl               \* an AppController with its pipeline thread and polls

vars == <<role, project_metrics, pc, runs, rootSeen, projSeen, project,
          directory, all_rows, project_cc, project_mi, project_sloc, rows,
          all_cc_values, mi_weighted, sloc_list, nwalk, outFiles, metricsDir,
          final_df, trace, listed, writes, metricsInit, metricsBase,
          analyzer_class, root_exists, pipeline, gui, calls, savers, ctl>>

frontend == <<pipeline, gui>>
others == <<calls, savers, ctl>>
analyzer == <<role, project_metrics, analyzer_class>>
setLocals == <<all_rows, rootSeen>>
projectLocals == <<project, projSeen, project_cc, project_mi, project_sloc>>
directoryLocals == <<directory, rows, all_cc_values, mi_weighted, sloc_list, nwalk>>
disk == <<outFiles, metricsDir, writes, metricsInit>>

NoMetricsDir == [exists |-> FALSE, files |-> NoFiles]

\* Optional[...] values
None == <<>>
Some(x) == <<x>>

\* pipeline_service.py lines 42-50: the dataclass PipelineResult
PipelineResult(success) ==
    [success |-> success, producer_output_dir |-> None,
     consumer_output_dir |-> None, metrics_output_dir |-> None,
     error_message |-> None]

\* no analyzer is inside _save_metrics_csv, no AppController has been made
NoSavers == <<>>
NoController ==
    [status |-> "none", at |-> "idle", start_button |-> "normal",
     threads |-> <<>>, result |-> <<>>, scheduled |-> FALSE,
     completes |-> <<>>, requests |-> 0, dialog |-> "none"]

\* no PipelineService has been made yet
NoPipeline ==
    [status |-> "none", config |-> <<>>, next |-> 0,
     result |-> PipelineResult(TRUE), executed |-> <<>>, raised |-> None]

\* no OutputReader has been made yet
NoGui ==
    [status |-> "none", producer |-> None, consumer |-> None,
     analyses |-> <<>>, tree |-> <<>>, refreshed |-> 0]

Init ==
    /\ role \in AnalyzerRole
    /\ project_metrics = <<>>
    /\ pc = "idle"
    /\ runs = 0
    /\ rootSeen = <<>>
    /\ projSeen = <<>>
    /\ project = <<>>
    /\ directory = <<>>
    /\ all_rows = <<>>
    /\ project_cc = <<>>
    /\ project_mi = <<>>
    /\ project_sloc = <<>>
    /\ rows = <<>>
    /\ all_cc_values = <<>>
    /\ mi_weighted = <<>>
    /\ sloc_list = <<>>
    /\ nwalk = 0
    /\ outFiles = NoFiles
    /\ metricsDir = NoMetricsDir
    /\ final_df = <<>>
    /\ trace = <<>>
    /\ listed = 0
    /\ writes = <<>>
    /\ metricsInit = metricsDir
    /\ metricsBase = 0
    \* metrics_analyzer_builder.py lines 13-14: the builder of the metrics
    \* analyzer fixes the Metrics role
    /\ analyzer_class \in AnalyzerClass
    /\ analyzer_class = MLMetricsAnalyzer => role = METRICS
    /\ root_exists \in BOOLEAN
    /\ pipeline = NoPipeline
    /\ gui = NoGui
    /\ calls = <<>>
    /\ savers = NoSavers
    /\ ctl = NoController

\* a variant that takes a missing input folder for an empty one
ListRootLenient(exists) == "projects"

\* line 193: os.listdir(input_folder) raises FileNotFoundError when the
\* folder is missing, otherwise the loop over its entries starts
ListRoot(exists) == IF exists THEN "projects" ELSE "FileNotFoundError"

Entry(name, isdir) == [name |-> name, isdir |-> isdir]

(* ----------------------- analyze_projects_set ------------------------- *)
\* line 190-193: the call starts; os.listdir raises when the root is missing
StartRun ==
    /\ pc = "idle"
    /\ runs = 0
    /\ runs' = runs + 1
    /\ all_rows' = <<>>
    /\ rootSeen' = <<>>
    /\ metricsBase' = Len(project_metrics)
    /\ final_df' = <<>>
    /\ pc' = ListRoot(root_exists)
    /\ calls' = Append(calls, <<>>)
    /\ UNCHANGED <<analyzer, projectLocals, directoryLocals, disk, trace, listed,
                   root_exists, frontend, savers, ctl>>

\* lines 193-196: a top-level entry that is not a directory
SkipRootEntry ==
    /\ pc = "projects"
    /\ listed < MaxEntries
    /\ listed' = listed + 1
    /\ rootSeen' = Append(rootSeen, Entry(RootName(Len(rootSeen) + 1), FALSE))
    /\ UNCHANGED <<analyzer, pc, runs, all_rows, projectLocals,
                   directoryLocals, disk, final_df, trace, metricsBase,
                   root_exists, frontend, others>>

\* lines 193-198: a top-level directory, a project
BeginProject ==
    /\ pc = "projects"
    /\ listed < MaxEntries
    /\ listed' = listed + 1
    /\ rootSeen' = Append(rootSeen, Entry(RootName(Len(rootSeen) + 1), TRUE))
    /\ project' = RootName(Len(rootSeen) + 1)
    /\ project_cc' = <<>>
    /\ project_mi' = <<>>
    /\ project_sloc' = <<>>
    /\ projSeen' = <<>>
    /\ pc' = "components"
    /\ UNCHANGED <<analyzer, runs, all_rows, directoryLocals, disk, final_df,
                   trace, metricsBase,
                   root_exists, frontend, others>>

\* a variant that takes every entry of a project for a component
AfterProjectEntryNoCheck(isdir) == "walk"

\* lines 201-205: an entry that is not a directory is passed over, on a
\* directory analyze_project is called
AfterProjectEntry(isdir) == IF isdir THEN "walk" ELSE "components"

\* lines 200-203: an entry of the project that is not a directory
SkipProjectEntry ==
    /\ pc = "components"
    /\ listed < MaxEntries
    /\ listed' = listed + 1
    /\ projSeen' = Append(projSeen,
                          Entry(ProjEntryName(Len(rootSeen), Len(projSeen) + 1),
                                FALSE))
    /\ pc' = AfterProjectEntry(FALSE)
    /\ UNCHANGED <<analyzer, runs, setLocals, project, project_cc,
                   project_mi, project_sloc, directoryLocals, disk, final_df,
                   trace, metricsBase,
                   root_exists, frontend, others>>

\* lines 200-213 and 141-142: a component directory, analyze_project is called
BeginDirectory ==
    /\ pc = "components"
    /\ listed < MaxEntries
    /\ listed' = listed + 1
    /\ projSeen' = Append(projSeen,
                          Entry(ProjEntryName(Len(rootSeen), Len(projSeen) + 1),
                                TRUE))
    /\ directory' = ProjEntryName(Len(rootSeen), Len(projSeen) + 1)
    /\ rows' = <<>>
    /\ all_cc_values' = <<>>
    /\ mi_weighted' = <<>>
    /\ sloc_list' = <<>>
    /\ nwalk' = 0
    /\ pc' = AfterProjectEntry(TRUE)
    /\ UNCHANGED <<analyzer, runs, setLocals, project, project_cc, project_mi,
                   project_sloc, disk, final_df, trace, metricsBase,
                   root_exists, frontend, others>>

(* --------------------------- analyze_project -------------------------- *)
FilePath(k) ==
    PathJoin(PathJoin(PathJoin(input_folder, project), directory), FileName(k))

\* one entry of the history of enumerated files
Seen(file_path, f, inspected, out) ==
    [run |-> runs, project |-> project, directory |-> directory,
     where |-> file_path, f |-> f, inspected |-> inspected, out |-> out]

NotInspected == Outcome(<<>>, FALSE, EmptyResult)

\* a variant that collects the complexities under every role
CcSamplesAnyRole(r, ret) == Complexities(ret.cc_blocks)

\* lines 156-161: the metric samples one inspected file adds
CcSamples(r, ret) ==
    IF r = METRICS THEN Complexities(ret.cc_blocks) ELSE <<>>

\* a variant that weighs the files without source lines as well
MiSamplesAlways(r, ret) ==
    IF r = METRICS THEN << <<ret.mi_val, ret.sloc_val>> >> ELSE <<>>

MiSamples(r, ret) ==
    IF r = METRICS /\ ret.sloc_val > 0
    THEN << <<ret.mi_val, ret.sloc_val>> >> ELSE <<>>

SlocSamples(r, ret) ==
    IF r = METRICS /\ ret.sloc_val > 0 THEN <<ret.sloc_val>> ELSE <<>>

\* lines 144-173: one iteration of the loop over the walked files
WalkFile ==
    /\ pc = "walk"
    /\ Len(trace) < MaxFiles
    /\ nwalk' = nwalk + 1
    /\ \E file \in FileProfiles :
          LET file_path == FilePath(nwalk + 1)
              f == Inspected(analyzer_class, file)
              out == analyze_single_file(f)
          IN  IF ~f.valid
              THEN /\ trace' = Append(trace, Seen(file_path, f, FALSE, NotInspected))
                   /\ UNCHANGED <<pc, rows, all_cc_values, mi_weighted, sloc_list>>
              ELSE /\ trace' = Append(trace, Seen(file_path, f, TRUE, out))
                   /\ IF out.raised
                      THEN /\ pc' = "raised"
                           /\ UNCHANGED <<rows, all_cc_values, mi_weighted,
                                          sloc_list>>
                      ELSE /\ pc' = pc
                           /\ all_cc_values' =
                                 all_cc_values \o CcSamples(role, out.ret)
                           /\ mi_weighted' =
                                 mi_weighted \o MiSamples(role, out.ret)
                           /\ sloc_list' = sloc_list \o SlocSamples(role, out.ret)
                           /\ rows' = rows \o RowsOfFile(project, directory, role,
                                                         file_path,
                                                         out.ret.keywords)
    /\ UNCHANGED <<analyzer, runs, setLocals, projectLocals, directory, disk,
                   final_df, listed, metricsBase,
                   root_exists, frontend, others>>

\* lines 175-184 and 215-221: analyze_project returns to its caller
EndDirectory ==
    /\ pc = "walk"
    /\ outFiles' = PersistTable(outFiles,
                                DirectoryCsv(project, directory, role), rows)
    /\ IF role = METRICS
       THEN /\ project_cc' = project_cc \o all_cc_values
            /\ project_mi' = project_mi \o mi_weighted
            /\ project_sloc' = project_sloc \o sloc_list
       ELSE UNCHANGED <<project_cc, project_mi, project_sloc>>
    /\ all_rows' = GlobalRows(all_rows, rows)
    /\ pc' = "components"
    /\ writes' = IF rows # <<>>
                 THEN Append(writes,
                             Written("output",
                                     DirectoryCsv(project, directory, role)))
                 ELSE writes
    /\ UNCHANGED <<analyzer, runs, rootSeen, project, projSeen,
                   directoryLocals, metricsDir, metricsInit, final_df, trace,
                   listed, metricsBase,
                   root_exists, frontend, others>>

\* lines 223-236: the components of one project are exhausted
EndProject ==
    /\ pc = "components"
    /\ project_metrics' = RecordProject(role, project_metrics, project,
                                        project_cc, project_mi, project_sloc)
    /\ pc' = "projects"
    /\ calls' = [calls EXCEPT ![Len(calls)] =
                    RecordProject(role, @, project, project_cc, project_mi,
                                  project_sloc)]
    /\ UNCHANGED <<role, analyzer_class, runs, setLocals, projectLocals,
                   directoryLocals, disk, final_df, trace, listed, metricsBase,
                   root_exists, frontend, savers, ctl>>

\* lines 238-244: the projects are exhausted
EndRun ==
    /\ pc = "projects"
    /\ final_df' = all_rows
    /\ outFiles' = IF all_rows # <<>>
                   THEN WriteFile(outFiles, ResultsCsv, all_rows)
                   ELSE outFiles
    /\ metricsDir' = save_metrics_csv(role, project_metrics, metricsDir)
    /\ writes' = (IF all_rows # <<>>
                  THEN Append(writes, Written("output", ResultsCsv))
                  ELSE writes)
                 \o MetricsWrites(role, project_metrics, metricsDir)
    /\ pc' = "done"
    /\ UNCHANGED <<metricsInit, analyzer, runs, setLocals, projectLocals, directoryLocals,
                   trace, listed, metricsBase,
                   root_exists, frontend, others>>

Next ==
    \/ StartRun
    \/ SkipRootEntry
    \/ BeginProject
    \/ SkipProjectEntry
    \/ BeginDirectory
    \/ WalkFile
    \/ EndDirectory
    \/ EndProject
    \/ EndRun

Spec == Init /\ [][Next]_vars

(* --------- analyze_project called on the components of a run ---------- *)
\* the names os.listdir yields for the projects and for their components
ProjectNames == {RootName(k) : k \in 1..2}
ComponentNames == {ProjEntryName(j, k) : j \in 1..2, k \in 1..MaxEntries}

\* the (project, component) pairs analyze_project has been called on
Visited == {<<calls[i].project, calls[i].directory>> : i \in 1..Len(calls)}

\* lines 193-213: the loops reach every component directory once, project
\* by project
NextComponent(p, d) ==
    /\ <<p, d>> \notin Visited
    /\ IF calls = <<>> THEN TRUE
       ELSE \/ p = Last(calls).project
            \/ \A i \in 1..Len(calls) : calls[i].project # p

\* lines 137-184: one call of analyze_project on a directory with one file,
\* which returns
AnalyzeProject ==
    /\ pc = "idle"
    /\ Len(calls) < MaxEntries
    /\ \E p \in ProjectNames, d \in ComponentNames, file \in FileProfiles :
          LET f == Inspected(analyzer_class, file)
              out == analyze_single_file(f)
              file_path ==
                  PathJoin(PathJoin(PathJoin(input_folder, p), d), FileName(1))
              df == IF f.valid
                    THEN RowsOfFile(p, d, role, file_path, out.ret.keywords)
                    ELSE <<>>
          IN  /\ NextComponent(p, d)
              /\ f.valid => ~out.raised
              /\ project' = p
              /\ directory' = d
              /\ rows' = df
              /\ outFiles' = PersistTable(outFiles, DirectoryCsv(p, d, role), df)
              /\ writes' = IF df # <<>>
                           THEN Append(writes,
                                       Written("output", DirectoryCsv(p, d, role)))
                           ELSE writes
              /\ calls' = Append(calls,
                                 [project |-> p, directory |-> d, df |-> df])
    /\ UNCHANGED <<analyzer, pc, runs, setLocals, projSeen, project_cc,
                   project_mi, project_sloc, all_cc_values, mi_weighted,
                   sloc_list, nwalk, metricsDir, metricsInit, final_df, trace,
                   listed, metricsBase, root_exists, frontend, savers, ctl>>

SpecComponents == Init /\ [][AnalyzeProject]_vars

(* ------- analyze_projects_set called again on the same analyzer -------- *)
\* metrics_analyzer_builder.py lines 11-17: the Metrics analyzer, on an
\* input folder that is there
InitRuns ==
    /\ Init
    /\ analyzer_class = MLMetricsAnalyzer
    /\ root_exists

\* lines 190-193: a later call on the analyzer object, after a call that
\* returned or raised; self.project_metrics is left as it stands
CallAgain ==
    /\ pc \in {"done", "raised"}
    /\ runs < MaxRuns
    /\ runs' = runs + 1
    /\ all_rows' = <<>>
    /\ rootSeen' = <<>>
    /\ metricsBase' = Len(project_metrics)
    /\ final_df' = <<>>
    /\ pc' = ListRoot(root_exists)
    /\ calls' = Append(calls, <<>>)
    /\ UNCHANGED <<analyzer, projectLocals, directoryLocals, disk, trace, listed,
                   root_exists, frontend, savers, ctl>>

NextRuns == Next \/ CallAgain

SpecRuns == InitRuns /\ [][NextRuns]_vars

(* ------------- analyze_single_file called on its own ------------------ *)
\* every combination of outcomes of the steps of one inspection
Checks == {CheckNone, CheckLibOnly, CheckOne, CheckThree, CheckRaises}
Texts == {TextEmpty, TextComments, TextTwo, TextEight}
CcOutcomes == {CcFails, CcOf(<<>>), CcOf(<<1>>), CcOf(<<1, 2, 2>>)}
MiOutcomes == {MiFails, MiOf(7189), MiOf(10000)}

AllFiles ==
    [valid : {TRUE}, isfile : BOOLEAN, check : Checks, readable : BOOLEAN,
     text : Texts, cc : CcOutcomes, mi : MiOutcomes]

\* lines 83-130: one call analyzer.analyze_single_file(file, repo)
InspectFile ==
    /\ pc = "idle"
    /\ trace = <<>>
    /\ \E file \in AllFiles :
          LET f == Inspected(analyzer_class, file)
          IN  trace' = <<Seen(<<"X.py">>, f, TRUE, analyze_single_file(f))>>
    /\ UNCHANGED <<analyzer, pc, runs, setLocals, projectLocals,
                   directoryLocals, disk, final_df, listed, metricsBase,
                   root_exists, frontend, others>>

SpecFile == Init /\ [][InspectFile]_vars

(* --------------- _save_metrics_csv called on its own ------------------ *)
\* files lying in output_folder/metrics before the first call
StrayFiles ==
    { <<"results.csv">>,
      <<"old", "_", "metrics.csv">>,
      <<"7", "_", "old", "_", "metrics.csv">>,
      <<"2", "_", "metrics.csv">> }

InitialMetricsDirs ==
    { NoMetricsDir } \cup
    { [exists |-> TRUE, files |-> [n \in S |-> <<>>]] : S \in SUBSET StrayFiles }

\* the project_metrics an analyzer can hold when its run reaches line 242
MetricsTables ==
    { <<>>,
      <<[ProjectName |-> <<"a">>, CC_avg |-> 167, MI_avg |-> 7751]>>,
      <<[ProjectName |-> <<"a">>, CC_avg |-> 0, MI_avg |-> 0],
        [ProjectName |-> <<"a", "_", "b">>, CC_avg |-> 150, MI_avg |-> 3000]>> }

InitSave ==
    /\ Init!1 /\ Init!2 /\ Init!3 /\ Init!4 /\ Init!5 /\ Init!6 /\ Init!7
    /\ Init!8 /\ Init!9 /\ Init!10 /\ Init!11 /\ Init!12 /\ Init!13
    /\ Init!14 /\ Init!15 /\ Init!16 /\ Init!17 /\ Init!18
    /\ metricsDir \in InitialMetricsDirs
    /\ final_df = <<>>
    /\ trace = <<>>
    /\ listed = 0
    /\ writes = <<>>
    /\ metricsInit = metricsDir
    /\ metricsBase = 0
    /\ analyzer_class = SignatureAnalyzer
    /\ root_exists = TRUE
    /\ pipeline = NoPipeline
    /\ gui = NoGui
    /\ Init!31 /\ Init!32 /\ Init!33

\* lines 52-77: an analyzer of role r holding the records pm flushes them
SaveMetrics ==
    /\ pc = "idle"
    /\ runs < MaxSaves
    /\ runs' = runs + 1
    /\ \E r \in AnalyzerRole, pm \in MetricsTables :
          /\ role' = r
          /\ project_metrics' = pm
          /\ metricsDir' = save_metrics_csv(r, pm, metricsDir)
          /\ writes' = writes \o MetricsWrites(r, pm, metricsDir)
    /\ UNCHANGED <<pc, setLocals, projectLocals, directoryLocals, outFiles,
                   metricsInit, final_df, trace, listed, metricsBase,
                   analyzer_class, root_exists, frontend, others>>

\* code_metrics.py lines 142-168: a CodeMetrics object flushes its list
CodeMetricsSave ==
    /\ pc = "idle"
    /\ runs < MaxSaves
    /\ runs' = runs + 1
    /\ \E ml \in MetricsTables :
          /\ metricsDir' = save_csv(ml, metricsDir)
          /\ writes' = writes \o MetricsWrites(METRICS, ml, metricsDir)
    /\ UNCHANGED <<analyzer, pc, setLocals, projectLocals, directoryLocals,
                   outFiles, metricsInit, final_df, trace, listed, metricsBase,
                   root_exists, frontend, others>>

NextSave == SaveMetrics \/ CodeMetricsSave

SpecSave == InitSave /\ [][NextSave]_vars

(* ------- metrics writes into a directory whose files come and go ------- *)
\* between two writes a file of the metrics directory is removed from
\* outside; line 63 lists whatever is there when the next write starts
RemoveMetricsFile ==
    /\ pc = "idle"
    /\ metricsDir.exists
    /\ \E n \in DOMAIN metricsDir.files :
          metricsDir' = [metricsDir EXCEPT
                            !.files = [m \in DOMAIN metricsDir.files \ {n} |->
                                          metricsDir.files[m]]]
    /\ UNCHANGED <<analyzer, pc, runs, setLocals, projectLocals,
                   directoryLocals, outFiles, writes, metricsInit, final_df,
                   trace, listed, metricsBase,
                   root_exists, frontend, others>>

NextChurn == SaveMetrics \/ CodeMetricsSave \/ RemoveMetricsFile

SpecChurn == InitSave /\ [][NextChurn]_vars

(* ------ two analyzers inside _save_metrics_csv at the same time -------- *)
\* an analyzer that holds the records pm and has not yet entered the method
Saver(pm) == [pc |-> "idle", metrics |-> pm, existing |-> {}, next_index |-> 0]

\* two Metrics analyzers, in two threads or two processes, with the same
\* output folder
InitRace ==
    /\ role = METRICS
    /\ Init!2 /\ Init!3 /\ Init!4 /\ Init!5 /\ Init!6 /\ Init!7 /\ Init!8
    /\ Init!9 /\ Init!10 /\ Init!11 /\ Init!12 /\ Init!13 /\ Init!14
    /\ Init!15 /\ Init!16 /\ Init!17 /\ Init!18
    /\ metricsDir \in InitialMetricsDirs
    /\ final_df = <<>>
    /\ trace = <<>>
    /\ listed = 0
    /\ writes = <<>>
    /\ metricsInit = metricsDir
    /\ metricsBase = 0
    /\ analyzer_class = MLMetricsAnalyzer
    /\ root_exists = TRUE
    /\ pipeline = NoPipeline
    /\ gui = NoGui
    /\ calls = <<>>
    /\ \E pm1, pm2 \in MetricsTables : savers = <<Saver(pm1), Saver(pm2)>>
    /\ ctl = NoController

\* lines 53-61: the early return on an empty list, otherwise os.makedirs
SaverEnters ==
    \E i \in DOMAIN savers :
        /\ savers[i].pc = "idle"
        /\ IF savers[i].metrics = <<>>
           THEN /\ savers' = [savers EXCEPT ![i].pc = "returned"]
                /\ UNCHANGED metricsDir
           ELSE /\ savers' = [savers EXCEPT ![i].pc = "made"]
                /\ metricsDir' = [metricsDir EXCEPT !.exists = TRUE]
        /\ UNCHANGED <<analyzer, pc, runs, setLocals, projectLocals,
                       directoryLocals, outFiles, writes, metricsInit, final_df,
                       trace, listed, metricsBase, root_exists, frontend,
                       calls, ctl>>

\* lines 63-66: os.listdir and the filter
SaverLists ==
    \E i \in DOMAIN savers :
        /\ savers[i].pc = "made"
        /\ savers' = [savers EXCEPT
                         ![i].pc = "listed",
                         ![i].existing = ExistingMetrics(metricsDir.files)]
        /\ UNCHANGED <<analyzer, pc, runs, setLocals, projectLocals,
                       directoryLocals, disk, final_df, trace, listed,
                       metricsBase, root_exists, frontend, calls, ctl>>

\* lines 68-71: next_index
SaverComputes ==
    \E i \in DOMAIN savers :
        /\ savers[i].pc = "listed"
        /\ savers' = [savers EXCEPT
                         ![i].pc = "computed",
                         ![i].next_index = NextIndex(savers[i].existing)]
        /\ UNCHANGED <<analyzer, pc, runs, setLocals, projectLocals,
                       directoryLocals, disk, final_df, trace, listed,
                       metricsBase, root_exists, frontend, calls, ctl>>

\* lines 73-75: to_csv creates the file or truncates the one that is there
SaverWrites ==
    \E i \in DOMAIN savers :
        /\ savers[i].pc = "computed"
        /\ savers' = [savers EXCEPT ![i].pc = "written"]
        /\ metricsDir' = [metricsDir EXCEPT
                             !.files = WriteFile(@,
                                                 MetricsCsv(savers[i].next_index),
                                                 savers[i].metrics)]
        /\ writes' = Append(writes,
                            Written("metrics", MetricsCsv(savers[i].next_index)))
        /\ UNCHANGED <<analyzer, pc, runs, setLocals, projectLocals,
                       directoryLocals, outFiles, metricsInit, final_df, trace,
                       listed, metricsBase, root_exists, frontend, calls, ctl>>

NextRace == SaverEnters \/ SaverLists \/ SaverComputes \/ SaverWrites

SpecRace == InitRace /\ [][NextRace]_vars

(* ------------------- PipelineService.run_pipeline ---------------------- *)

\* the analyzer of the pipeline before any of its runs
AnalyzerAtRest ==
    /\ role = METRICS
    /\ Init!2 /\ Init!3 /\ Init!4 /\ Init!5 /\ Init!6 /\ Init!7 /\ Init!8
    /\ Init!9 /\ Init!10 /\ Init!11 /\ Init!12 /\ Init!13 /\ Init!14
    /\ Init!15 /\ Init!16 /\ Init!17 /\ Init!18 /\ Init!19 /\ Init!20
    /\ Init!21 /\ Init!22 /\ Init!23 /\ Init!24 /\ Init!25
    /\ analyzer_class = MLMetricsAnalyzer
    /\ root_exists = TRUE

\* lines 62-75: the steps in the order run_pipeline takes them
Steps == <<"cloner", "cloner_check", "producer", "consumer", "metrics">>

\* lines 31-36: the step flags of PipelineConfig
PipelineConfigs ==
    [run_cloner : BOOLEAN, run_cloner_check : BOOLEAN,
     run_producer_analysis : BOOLEAN, run_consumer_analysis : BOOLEAN,
     run_metrics_analysis : BOOLEAN]

StepEnabled(config, k) ==
    CASE k = 1 -> config.run_cloner
      [] k = 2 -> config.run_cloner_check
      [] k = 3 -> config.run_producer_analysis
      [] k = 4 -> config.run_consumer_analysis
      [] k = 5 -> config.run_metrics_analysis

\* the directory name facade.run_analysis() returns
OutputDirOf(k) == <<Steps[k], "_", "1">>

\* a variant that keeps one directory field for all the analyses
StepDoneOneField(result, k) ==
    IF k \in {3, 4, 5}
    THEN [result EXCEPT !.producer_output_dir = Some(OutputDirOf(k))]
    ELSE result

\* lines 69-75: the result after step k has returned
StepDone(result, k) ==
    CASE k = 3 -> [result EXCEPT !.producer_output_dir = Some(OutputDirOf(3))]
      [] k = 4 -> [result EXCEPT !.consumer_output_dir = Some(OutputDirOf(4))]
      [] k = 5 -> [result EXCEPT !.metrics_output_dir = Some(OutputDirOf(5))]
      [] OTHER -> result

\* the exceptions a step can end with: an exception is its class and args
StepErrors ==
    { [cls |-> "ValueError", args |-> <<>>],
      [cls |-> "FileNotFoundError", args |-> <<"Input folder not found">>],
      [cls |-> "KeyError", args |-> <<"url">>] }

\* str(e): nothing without args, the argument otherwise, which KeyError quotes
Str(e) ==
    IF e.args = <<>> THEN <<>>
    ELSE IF e.cls = "KeyError" THEN <<"'">> \o e.args \o <<"'">>
    ELSE e.args

\* line 77: except Exception
Catches(e) == e.cls \in {"Exception", "ValueError", "FileNotFoundError", "KeyError"}

\* a variant that answers a failure with a fresh result
FailureFresh(result, e) ==
    [PipelineResult(FALSE) EXCEPT !.error_message = Some(Str(e))]

\* lines 79-80: the handler marks the result
Failure(result, e) ==
    [result EXCEPT !.success = FALSE, !.error_message = Some(Str(e))]

InitPipeline ==
    /\ AnalyzerAtRest
    /\ Init!31 /\ Init!32 /\ Init!33
    /\ pipeline = NoPipeline
    /\ gui = NoGui

\* lines 55-60: a service is made and run_pipeline starts on it
StartPipeline ==
    /\ pipeline.status = "none"
    /\ \E config \in PipelineConfigs :
          pipeline' = [status |-> "running", config |-> config, next |-> 1,
                       result |-> PipelineResult(TRUE), executed |-> <<>>,
                       raised |-> None]
    /\ UNCHANGED <<analyzer, pc, runs, setLocals, projectLocals,
                   directoryLocals, disk, final_df, trace, listed, metricsBase,
                   root_exists, gui, others>>

\* a step whose flag is off
SkipStep ==
    /\ pipeline.status = "running"
    /\ pipeline.next <= Len(Steps)
    /\ ~StepEnabled(pipeline.config, pipeline.next)
    /\ pipeline' = [pipeline EXCEPT !.next = @ + 1]
    /\ UNCHANGED <<analyzer, pc, runs, setLocals, projectLocals,
                   directoryLocals, disk, final_df, trace, listed, metricsBase,
                   root_exists, gui, others>>

\* a step that runs and returns
StepReturns ==
    /\ pipeline.status = "running"
    /\ pipeline.next <= Len(Steps)
    /\ StepEnabled(pipeline.config, pipeline.next)
    /\ pipeline' = [pipeline EXCEPT
                        !.executed = Append(@, Steps[pipeline.next]),
                        !.result = StepDone(@, pipeline.next),
                        !.next = @ + 1]
    /\ UNCHANGED <<analyzer, pc, runs, setLocals, projectLocals,
                   directoryLocals, disk, final_df, trace, listed, metricsBase,
                   root_exists, gui, others>>

\* a step that runs and raises: lines 77-83
StepRaises ==
    /\ pipeline.status = "running"
    /\ pipeline.next <= Len(Steps)
    /\ StepEnabled(pipeline.config, pipeline.next)
    /\ \E e \in StepErrors :
          pipeline' = [pipeline EXCEPT
                          !.executed = Append(@, Steps[pipeline.next]),
                          !.raised = Some(e),
                          !.result = IF Catches(e) THEN Failure(@, e) ELSE @,
                          !.status = IF Catches(e) THEN "returned" ELSE "raised"]
    /\ UNCHANGED <<analyzer, pc, runs, setLocals, projectLocals,
                   directoryLocals, disk, final_df, trace, listed, metricsBase,
                   root_exists, gui, others>>

\* line 83 after the last step
PipelineReturns ==
    /\ pipeline.status = "running"
    /\ pipeline.next = Len(Steps) + 1
    /\ pipeline' = [pipeline EXCEPT !.status = "returned"]
    /\ UNCHANGED <<analyzer, pc, runs, setLocals, projectLocals,
                   directoryLocals, disk, final_df, trace, listed, metricsBase,
                   root_exists, gui, others>>

NextPipeline ==
    \/ StartPipeline
    \/ SkipStep
    \/ StepReturns
    \/ StepRaises
    \/ PipelineReturns

SpecPipeline == InitPipeline /\ [][NextPipeline]_vars

(* ------------------- OutputReader and AppController ------------------- *)
\* the characters of the names of run directories, in the order of str
Alphabet == DigitChars \o <<"_", "consumer", "producer">>

CharRank(c) == CHOOSE i \in 1..Len(Alphabet) : Alphabet[i] = c

\* a < b for str
RECURSIVE StrLess(_, _)
StrLess(a, b) ==
    IF b = <<>> THEN FALSE
    ELSE IF a = <<>> THEN TRUE
    ELSE IF Head(a) = Head(b) THEN StrLess(Tail(a), Tail(b))
    ELSE CharRank(Head(a)) < CharRank(Head(b))

\* sorted(S)
RECURSIVE Sorted(_)
Sorted(S) ==
    IF S = {} THEN <<>>
    ELSE LET least == CHOOSE x \in S : \A y \in S \ {x} : StrLess(x, y)
         IN  <<least>> \o Sorted(S \ {least})

\* name.split("_")[-1]
RECURSIVE SplitLast(_)
SplitLast(name) ==
    IF name = <<>> THEN <<>>
    ELSE IF name[Len(name)] = "_" THEN <<>>
    ELSE SplitLast(SubSeq(name, 1, Len(name) - 1)) \o <<name[Len(name)]>>

RunIds == { <<"1">>, <<"2">>, <<"1", "0">> }

RunDir(category, id) == <<category, "_">> \o id

\* what output_path / category can be: missing (None), or a directory
\* holding run directories
CategoryDirs(category) ==
    {None} \cup {Some({RunDir(category, id) : id \in ids}) : ids \in SUBSET RunIds}

\* the outcome of a call: the value returned or the exception raised
Returns(value) == [raised |-> FALSE, value |-> value]
Raises(cls) == [raised |-> TRUE, value |-> <<cls>>]

\* output_reader.py lines 114-118: iterdir() of a missing directory raises
find_complete_analyses(producer, consumer) ==
    IF producer = None \/ consumer = None THEN Raises("FileNotFoundError")
    ELSE Returns(Sorted({SplitLast(d) : d \in producer[1]}
                            \cap {SplitLast(d) : d \in consumer[1]}))

\* output_reader.py lines 62-93: the run directories of every category that
\* exists, sorted
scan_output_tree(producer, consumer) ==
    [producer_dirs |-> IF producer = None THEN <<>> ELSE Sorted(producer[1]),
     consumer_dirs |-> IF consumer = None THEN <<>> ELSE Sorted(consumer[1])]

\* controller.py lines 120-133: find_complete_analyses is called outside
\* the try block, scan_output_tree inside it
refresh_output_tree(g) ==
    LET found == find_complete_analyses(g.producer, g.consumer)
    IN  IF found.raised THEN [g EXCEPT !.status = "raised"]
        ELSE [g EXCEPT !.status = "constructed",
                       !.analyses = found.value,
                       !.tree = scan_output_tree(g.producer, g.consumer)]

\* OutputReader(output_path) over an output location
InitGui ==
    /\ AnalyzerAtRest
    /\ Init!31 /\ Init!32 /\ Init!33
    /\ pipeline = NoPipeline
    /\ \E p \in CategoryDirs("producer"), c \in CategoryDirs("consumer") :
          gui = [NoGui EXCEPT !.status = "reader", !.producer = p,
                              !.consumer = c]

\* controller.py lines 21-28: AppController(main_window, output_reader)
ConstructController ==
    /\ gui.status = "reader"
    /\ gui' = refresh_output_tree(gui)
    /\ UNCHANGED <<analyzer, pc, runs, setLocals, projectLocals,
                   directoryLocals, disk, final_df, trace, listed, metricsBase,
                   root_exists, pipeline, others>>

\* the callback "on_refresh" of the views
RefreshOutputTree ==
    /\ gui.status = "constructed"
    /\ gui.refreshed < MaxRefresh
    /\ gui' = refresh_output_tree([gui EXCEPT !.refreshed = @ + 1])
    /\ UNCHANGED <<analyzer, pc, runs, setLocals, projectLocals,
                   directoryLocals, disk, final_df, trace, listed, metricsBase,
                   root_exists, pipeline, others>>

\* an analysis that finished left its run directory under its category
RunDirectoryAppears ==
    /\ gui.status \in {"reader", "constructed"}
    /\ \E id \in RunIds :
          \/ gui' = [gui EXCEPT !.producer =
                        Some((IF @ = None THEN {} ELSE @[1])
                                \cup {RunDir("producer", id)})]
          \/ gui' = [gui EXCEPT !.consumer =
                        Some((IF @ = None THEN {} ELSE @[1])
                                \cup {RunDir("consumer", id)})]
    /\ UNCHANGED <<analyzer, pc, runs, setLocals, projectLocals,
                   directoryLocals, disk, final_df, trace, listed, metricsBase,
                   root_exists, pipeline, others>>

NextGui ==
    \/ ConstructController
    \/ RefreshOutputTree
    \/ RunDirectoryAppears

SpecGui == InitGui /\ [][NextGui]_vars

(* ------------- AppController: the pipeline thread and polls ----------- *)
\* a variant that leaves the start button disabled
set_running_state_stuck(is_running) == "disabled"

\* config_view.py lines 204-206: the state of the start button
set_running_state(is_running) == IF is_running THEN "disabled" ELSE "normal"

\* a variant that never takes the thread for alive
ThreadAliveNever(threads) == FALSE

\* controller.py line 98: self._pipeline_thread and its is_alive()
ThreadAlive(threads) == threads # <<>> /\ Last(threads) = "alive"

\* lines 108-118: the dialog _on_pipeline_complete shows for self._result
Dialog(result) ==
    IF result # None /\ result[1].success THEN "success"
    ELSE IF result # None THEN "failed"
    ELSE "unknown"

\* lines 21-28: the controller after its construction, the window idle
InitController ==
    /\ AnalyzerAtRest
    /\ pipeline = NoPipeline
    /\ gui = NoGui
    /\ calls = <<>>
    /\ savers = NoSavers
    /\ ctl = [NoController EXCEPT !.status = "ready"]

\* lines 44-84: a click on the enabled start button, up to thread.start();
\* a disabled button delivers no click
OnStartPipeline ==
    /\ ctl.status = "ready"
    /\ ctl.at = "idle"
    /\ ctl.start_button = "normal"
    /\ ctl.requests < MaxStarts
    /\ \E io_path_exists \in BOOLEAN :
          ctl' = IF ~io_path_exists
                 THEN [ctl EXCEPT !.requests = @ + 1,
                                  !.dialog = "invalid_path"]
                 ELSE [ctl EXCEPT !.requests = @ + 1,
                                  !.start_button = set_running_state(TRUE),
                                  !.threads = Append(@, "alive"),
                                  !.at = "started"]
    /\ UNCHANGED <<analyzer, pc, runs, setLocals, projectLocals,
                   directoryLocals, disk, final_df, trace, listed, metricsBase,
                   root_exists, frontend, calls, savers>>

\* lines 89-94: the thread stores what run_pipeline returned and ends
PipelineThreadEnds ==
    /\ \E i \in DOMAIN ctl.threads, success \in BOOLEAN :
          /\ ctl.threads[i] = "alive"
          /\ ctl' = [ctl EXCEPT
                        !.threads[i] = "dead",
                        !.result = Some([success |-> success, thread |-> i])]
    /\ UNCHANGED <<analyzer, pc, runs, setLocals, projectLocals,
                   directoryLocals, disk, final_df, trace, listed, metricsBase,
                   root_exists, frontend, calls, savers>>

\* _poll_completion is called by line 87 or by the timer of line 99
PollDue ==
    \/ ctl.at = "started"
    \/ ctl.at = "idle" /\ ctl.scheduled

\* lines 98-99: the thread is alive, the poll is scheduled again
PollReschedules ==
    /\ PollDue
    /\ ThreadAlive(ctl.threads)
    /\ ctl' = [ctl EXCEPT !.at = "idle", !.scheduled = TRUE]
    /\ UNCHANGED <<analyzer, pc, runs, setLocals, projectLocals,
                   directoryLocals, disk, final_df, trace, listed, metricsBase,
                   root_exists, frontend, calls, savers>>

\* lines 100-118: the thread is not alive, _on_pipeline_complete runs; an
\* error of _refresh_output_tree comes after the button is enabled again
PollCompletes ==
    /\ PollDue
    /\ ~ThreadAlive(ctl.threads)
    /\ ctl' = [ctl EXCEPT
                  !.at = "idle",
                  !.scheduled = FALSE,
                  !.start_button = set_running_state(FALSE),
                  !.dialog = Dialog(ctl.result),
                  !.completes = Append(@, [thread |-> Len(ctl.threads),
                                           result |-> ctl.result])]
    /\ UNCHANGED <<analyzer, pc, runs, setLocals, projectLocals,
                   directoryLocals, disk, final_df, trace, listed, metricsBase,
                   root_exists, frontend, calls, savers>>

NextController ==
    \/ OnStartPipeline
    \/ PipelineThreadEnds
    \/ PollReschedules
    \/ PollCompletes

SpecController == InitController /\ [][NextController]_vars

\* the pipeline terminates and the window keeps running its timers
SpecControllerFair ==
    /\ SpecController
    /\ WF_vars(PipelineThreadEnds)
    /\ WF_vars(PollReschedules)
    /\ WF_vars(PollCompletes)

(* ====================================================================== *)
(*                              properties                                *)
(* ====================================================================== *)
Inspections == {i \in 1..Len(trace) : trace[i].inspected}

Called(e, step) == \E k \in 1..Len(e.out.calls) : e.out.calls[k] = step

\* the text analyze_single_file had in hand, if it had one
WasRead(f) == f.isfile /\ f.check.ok /\ f.readable

(* C1: analyze_single_file never raises: whatever the outcomes of the      *)
(* existence test, check_library, the read, cc_visit and mi_visit, it      *)
(* returns a 6-tuple in which only the signals of the failed step are      *)
(* degraded to their empty or zero value.                                  *)
C1_NeverRaises ==
    \A i \in Inspections :
        LET f == trace[i].f
            ret == trace[i].out.ret
        IN  /\ ~trace[i].out.raised
            /\ ret.keywords =
                  IF f.isfile /\ f.check.ok THEN f.check.keywords ELSE <<>>
            /\ ret.libraries =
                  IF f.isfile /\ f.check.ok THEN f.check.libraries ELSE <<>>
            /\ ret.cc_blocks =
                  IF f.isfile /\ f.readable /\ f.cc.ok THEN f.cc.blocks ELSE <<>>
            /\ ret.mi_val =
                  IF f.isfile /\ f.readable /\ f.mi.ok THEN f.mi.val ELSE 0
            /\ ret.sloc_val =
                  IF f.isfile /\ f.readable THEN Sloc(f.text) ELSE 0

(* C2: for a path that is not an existing file analyze_single_file returns *)
(* ([], [], [], [], 0, 0) at once: check_library is not invoked, the file  *)
(* is not opened and neither cc_visit nor mi_visit is called.              *)
C2_MissingFileReturnsEmpty ==
    \A i \in Inspections :
        ~trace[i].f.isfile =>
            /\ ~trace[i].out.raised
            /\ trace[i].out.ret = Result(<<>>, <<>>, <<>>, <<>>, 0, 0)
            /\ \A step \in {"check_library", "open", "cc_visit", "mi_visit"} :
                  ~Called(trace[i], step)

\* a missing path on which check_library would have found matches
C2_Witness ==
    \E i \in Inspections :
        /\ ~trace[i].f.isfile
        /\ trace[i].f.check.ok
        /\ trace[i].f.check.keywords # <<>>
        /\ trace[i].out.calls # <<>>

(* C3: when the file exists, check_library returned (libraries, keywords,  *)
(* load_keywords) and reading the text fails, analyze_single_file returns  *)
(* those three values unchanged with blocks = [], maintainability = 0 and  *)
(* sloc = 0.                                                               *)
C3_ReadFailureKeepsMatches ==
    \A i \in Inspections :
        LET f == trace[i].f
            ret == trace[i].out.ret
        IN  (f.isfile /\ f.check.ok /\ ~f.readable) =>
                /\ ~trace[i].out.raised
                /\ ret.libraries = f.check.libraries
                /\ ret.keywords = f.check.keywords
                /\ ret.list_load_keywords = f.check.list_load_keywords
                /\ ret.cc_blocks = <<>>
                /\ ret.mi_val = 0
                /\ ret.sloc_val = 0

\* an unreadable file with three matches and a load keyword
C3_Witness ==
    \E i \in Inspections :
        /\ trace[i].f.isfile
        /\ ~trace[i].f.readable
        /\ Len(trace[i].f.check.keywords) = 3
        /\ trace[i].f.check.list_load_keywords # <<>>
        /\ Called(trace[i], "open")
        /\ trace[i].out.ret.keywords # <<>>

(* ---------------------------------------------------------------------- *)
\* the files of the present run, and those of one of its directories
InRun(e) == e.run = runs

RunTrace == SelectSeq(trace, InRun)

\* the matches check_library returned for an enumerated file
MatchesOf(e) ==
    IF e.inspected /\ e.f.isfile /\ e.f.check.ok THEN e.f.check.keywords
    ELSE <<>>

MatchCount(e) == Len(MatchesOf(e))

\* the call of analyze_single_file on the last enumerated file raised
InspectionAborted ==
    /\ pc = "raised"
    /\ trace # <<>>
    /\ trace[Len(trace)].out.raised

(* C4: in analyze_project every enumerated file that passes the filter is  *)
(* handed to analyze_single_file once, and no failing step of a file's     *)
(* inspection aborts the scan: the walk goes on and the table is returned. *)
C4_ScanNeverAborts ==
    /\ \A i \in 1..Len(trace) : trace[i].f.valid <=> trace[i].inspected
    /\ ~InspectionAborted

(* C5: row-count law: the table analyze_project builds has as many rows as *)
(* check_library returned matches over the qualifying files of the         *)
(* directory, and the table of analyze_projects_set as many as all the     *)
(* scanned directories of the run together.                                *)
InDirectory(e) == InRun(e) /\ e.project = project /\ e.directory = directory

C5_RowCountLaw ==
    /\ pc = "walk" =>
          Len(rows) = SumSeq(SeqMap(MatchCount, SelectSeq(trace, InDirectory)))
    /\ pc \in {"components", "projects", "done"} =>
          Len(all_rows) = SumSeq(SeqMap(MatchCount, RunTrace))
    /\ pc = "done" =>
          /\ Len(final_df) = SumSeq(SeqMap(MatchCount, RunTrace))
          /\ final_df # <<>> =>
                /\ ResultsCsv \in DOMAIN outFiles
                /\ Len(outFiles[ResultsCsv]) = Len(final_df)

\* a finished run over a file with three matches, one with a single match
\* and hence a table of four rows
C5_Witness ==
    /\ pc = "done"
    /\ Len(final_df) = 4
    /\ \E i, j \in 1..Len(trace) : MatchCount(trace[i]) = 3 /\ MatchCount(trace[j]) = 1

(* C6: every ClassificationRow accumulated or written has ProjectName      *)
(* "{project}/{component}" of the scanned directory, the column            *)
(* "Is ML {role}" equal to "Yes", and library, keyword and line_number of  *)
(* one match of the file named in 'where'; no row exists for a file        *)
(* without matches.                                                        *)
RowIsOfMatch(r, e) ==
    /\ r.where = e.where
    /\ r.ProjectName = e.project \o <<"/">> \o e.directory
    /\ \E k \in 1..Len(MatchesOf(e)) :
          /\ r.libraries = MatchesOf(e)[k].library
          /\ r.keyword = MatchesOf(e)[k].keyword
          /\ r.line_number = MatchesOf(e)[k].line_number

RowIsSound(r) ==
    /\ r.flag = <<"Is ML ", role>>
    /\ r.value = "Yes"
    /\ \E i \in 1..Len(trace) : RowIsOfMatch(r, trace[i])

TablesEver ==
    {rows, all_rows, final_df} \cup {outFiles[n] : n \in DOMAIN outFiles}

C6_RowsAreMatches ==
    /\ \A t \in TablesEver : \A k \in 1..Len(t) : RowIsSound(t[k])
    /\ pc = "walk" =>
          \A k \in 1..Len(rows) :
              rows[k].ProjectName = project \o <<"/">> \o directory

\* a written table holding the sklearn match of line 68 next to a scanned
\* file that had no match
C6_Witness ==
    /\ pc = "done"
    /\ \E k \in 1..Len(final_df) : final_df[k].line_number = 68
    /\ ResultsCsv \in DOMAIN outFiles
    /\ \E i \in 1..Len(trace) :
          /\ trace[i].inspected
          /\ trace[i].f.isfile
          /\ MatchCount(trace[i]) = 0

(* ---------------------------------------------------------------------- *)
\* the records the present run has appended, and the per-file results of
\* the project a record is about
RunRecords == SubSeq(project_metrics, metricsBase + 1, Len(project_metrics))

Returned(e) == e.inspected /\ ~e.out.raised

WeightOf(e) == IF Returned(e) /\ e.out.ret.sloc_val > 0 THEN e.out.ret.sloc_val ELSE 0

WeightedMiOf(e) == WeightOf(e) * e.out.ret.mi_val

ComplexitySumOf(e) ==
    IF Returned(e) THEN SumSeq(Complexities(e.out.ret.cc_blocks)) ELSE 0

BlockCountOf(e) == IF Returned(e) THEN Len(e.out.ret.cc_blocks) ELSE 0

FilesOfProject(p) == SelectSeq(RunTrace, LAMBDA e : e.project = p)

(* C7: under the Metrics role MI_avg of a project is                       *)
(* round(sum(mi_i * sloc_i) / sum(sloc_i), 2) over the (maintainability,   *)
(* sloc) pairs of all the files of all its components that have sloc > 0,  *)
(* and 0 when there is none; [(100.00, 2), (71.89, 8)] gives 77.51.        *)
C7_WeightedMi ==
    role = METRICS =>
        \A k \in 1..Len(RunRecords) :
            LET files == FilesOfProject(RunRecords[k].ProjectName)
                total == SumSeq(SeqMap(WeightOf, files))
            IN  RunRecords[k].MI_avg =
                    IF total = 0 THEN 0
                    ELSE RoundDiv(SumSeq(SeqMap(WeightedMiOf, files)), total)

\* the pairs (100.00, 2) and (71.89, 8), met in two components of one
\* project, recorded as 77.51
C7_Witness ==
    /\ role = METRICS
    /\ pc = "done"
    /\ \E k \in 1..Len(RunRecords) :
          LET files == FilesOfProject(RunRecords[k].ProjectName)
          IN  /\ RunRecords[k].MI_avg = 7751
              /\ Len(files) = 2
              /\ files[1].directory # files[2].directory
              /\ {<<files[i].out.ret.mi_val, files[i].out.ret.sloc_val>> : i \in 1..2}
                    = {<<10000, 2>>, <<7189, 8>>}

(* C8: under the Metrics role CC_avg of a project is                       *)
(* round(sum of the block complexities / number of blocks, 2) over every   *)
(* block of every file of every component, however the blocks are spread,  *)
(* and 0 when no block was collected; [1, 2, 2] gives 1.67.                *)
C8_BlockMeanCc ==
    role = METRICS =>
        \A k \in 1..Len(RunRecords) :
            LET files == FilesOfProject(RunRecords[k].ProjectName)
                blocks == SumSeq(SeqMap(BlockCountOf, files))
            IN  RunRecords[k].CC_avg =
                    IF blocks = 0 THEN 0
                    ELSE RoundDiv(100 * SumSeq(SeqMap(ComplexitySumOf, files)),
                                  blocks)

\* the scores 1 and 2, 2 met in two files, recorded as 1.67, next to a
\* project without any block, recorded as 0
C8_Witness ==
    /\ role = METRICS
    /\ pc = "done"
    /\ \E k \in 1..Len(RunRecords) :
          /\ RunRecords[k].CC_avg = 167
          /\ SumSeq(SeqMap(BlockCountOf,
                           FilesOfProject(RunRecords[k].ProjectName))) = 3
    /\ \E k \in 1..Len(RunRecords) :
          /\ RunRecords[k].CC_avg = 0
          /\ SumSeq(SeqMap(BlockCountOf,
                           FilesOfProject(RunRecords[k].ProjectName))) = 0

(* C9: after one analyze_projects_set call on a fresh Metrics analyzer     *)
(* project_metrics, and the metrics file written from it, holds one record *)
(* per directory directly under the input root, also for a project without *)
(* component or qualifying file, and none for the other entries; under the *)
(* Producer and Consumer roles it holds no record.                         *)
IsDir(entry) == entry.isdir

NameOf(entry) == entry.name

ProjectNameOf(record) == record.ProjectName

ListedProjects == SeqMap(NameOf, SelectSeq(rootSeen, IsDir))

C9_OneRecordPerProject ==
    (pc = "done" /\ runs = 1) =>
        IF role = METRICS
        THEN /\ SeqMap(ProjectNameOf, project_metrics) = ListedProjects
             /\ project_metrics # <<>> =>
                   /\ MetricsCsv(1) \in DOMAIN metricsDir.files
                   /\ metricsDir.files[MetricsCsv(1)] = project_metrics
        ELSE /\ project_metrics = <<>>
             /\ DOMAIN metricsDir.files = {}

\* a Metrics run over a project without component directory and a
\* project whose only file does not pass the filter: two records
C9_Witness ==
    /\ pc = "done" /\ runs = 1 /\ role = METRICS
    /\ Len(rootSeen) = 2
    /\ Len(project_metrics) = 2
    /\ Len(trace) = 1
    /\ ~trace[1].f.valid
    /\ MetricsCsv(1) \in DOMAIN metricsDir.files

(* ---------------------------------------------------------------------- *)
IsMetricsWrite(w) == w.folder = "metrics"

MetricsWritten == SelectSeq(writes, IsMetricsWrite)

\* the metrics directory held no file named ..._metrics.csv at the start
CleanStart ==
    \A n \in DOMAIN metricsInit.files : ~EndsWith(n, MetricsSuffix)

(* C10: versioning law: starting without metrics files, the k-th write of  *)
(* project records creates k_metrics.csv, so that N writes leave           *)
(* 1_metrics.csv ... N_metrics.csv, and no write changes or replaces a     *)
(* file that exists already.                                               *)
C10_VersioningStep ==
    (CleanStart /\ Len(MetricsWritten') > Len(MetricsWritten)) =>
        LET k == Len(MetricsWritten) + 1
        IN  /\ Len(MetricsWritten') = k
            /\ MetricsWritten'[k].name = MetricsCsv(k)
            /\ MetricsCsv(k) \notin DOMAIN metricsDir.files
            /\ DOMAIN metricsDir'.files =
                  DOMAIN metricsDir.files \cup {MetricsCsv(k)}
            /\ \A n \in DOMAIN metricsDir.files :
                  metricsDir'.files[n] = metricsDir.files[n]
            /\ metricsDir'.files[MetricsCsv(k)] # <<>>

C10_VersioningLaw == [][C10_VersioningStep]_vars

\* three writes have left 1_metrics.csv, 2_metrics.csv and 3_metrics.csv
C10_Witness ==
    /\ CleanStart
    /\ Len(MetricsWritten) = 3
    /\ {n \in DOMAIN metricsDir.files : EndsWith(n, MetricsSuffix)}
          = {MetricsCsv(1), MetricsCsv(2), MetricsCsv(3)}

(* ---------------------------------------------------------------------- *)
\* the index a written metrics file carries in its name
IndexOfName(n) == ParseInt(SplitFirst(n))

\* a name of the form {integer}_metrics.csv
IsVersionedName(n) ==
    /\ IsDigit(SplitFirst(n))
    /\ n = SplitFirst(n) \o MetricsSuffix

\* every written metrics file carries a larger index than those before it
C11_IndicesNeverReused ==
    \A i, j \in 1..Len(MetricsWritten) :
        i < j => IndexOfName(MetricsWritten[i].name)
                    < IndexOfName(MetricsWritten[j].name)

\* the written metrics file of the highest index is still in the directory
HighestStillThere ==
    \E i \in 1..Len(MetricsWritten) :
        /\ MetricsWritten[i].name \in DOMAIN metricsDir.files
        /\ \A j \in 1..Len(MetricsWritten) :
              IndexOfName(MetricsWritten[j].name)
                  <= IndexOfName(MetricsWritten[i].name)

(* C11: whatever files were removed from the metrics directory between the *)
(* writes, the index N of a newly written {N}_metrics.csv is strictly      *)
(* greater than the index of every {integer}_metrics.csv that is in the    *)
(* directory when the write starts, and so greater than every index        *)
(* written before whenever the written file of the highest index is still *)
(* there; the write creates a new name and leaves every existing file as   *)
(* it was.                                                                 *)
C11_FreshIndexStep ==
    Len(MetricsWritten') > Len(MetricsWritten) =>
        LET w == MetricsWritten'[Len(MetricsWritten')]
            N == IndexOfName(w.name)
        IN  /\ Len(MetricsWritten') = Len(MetricsWritten) + 1
            /\ IsVersionedName(w.name)
            /\ \A n \in DOMAIN metricsDir.files :
                  IsVersionedName(n) => IndexOfName(n) < N
            /\ w.name \notin DOMAIN metricsDir.files
            /\ DOMAIN metricsDir'.files = DOMAIN metricsDir.files \cup {w.name}
            /\ \A n \in DOMAIN metricsDir.files :
                  metricsDir'.files[n] = metricsDir.files[n]
            /\ HighestStillThere =>
                  \A i \in 1..Len(MetricsWritten) :
                      IndexOfName(MetricsWritten[i].name) < N

C11_FreshIndex == [][C11_FreshIndexStep]_vars

\* 1_metrics.csv was written and removed, 2_metrics.csv stayed, and the
\* third write made 3_metrics.csv
C11_Witness ==
    /\ CleanStart
    /\ Len(MetricsWritten) = 3
    /\ MetricsWritten[3].name = MetricsCsv(3)
    /\ MetricsCsv(1) \notin DOMAIN metricsDir.files
    /\ MetricsCsv(2) \in DOMAIN metricsDir.files
    /\ MetricsCsv(3) \in DOMAIN metricsDir.files

(* ---------------------------------------------------------------------- *)
RECURSIVE Concat(_)
Concat(tables) ==
    IF tables = <<>> THEN <<>> ELSE Head(tables) \o Concat(Tail(tables))

\* the rows the matches of one enumerated file stand for, in match order
TableOfFile(e) ==
    [k \in 1..Len(MatchesOf(e)) |->
        [ProjectName |-> e.project \o <<"/">> \o e.directory,
         flag |-> <<"Is ML ", role>>,
         value |-> "Yes",
         libraries |-> MatchesOf(e)[k].library,
         where |-> e.where,
         keyword |-> MatchesOf(e)[k].keyword,
         line_number |-> MatchesOf(e)[k].line_number]]

\* the directory tables of the run, one after the other in traversal order
TraversalTable == Concat(SeqMap(TableOfFile, RunTrace))

ResultsWrites ==
    {i \in 1..Len(writes) :
        writes[i].folder = "output" /\ writes[i].name = ResultsCsv}

(* C12: analyze_projects_set writes results.csv iff the run-global table   *)
(* is non-empty, at most once per call and only after every project has    *)
(* been processed; the rows of the file are the rows of all directory      *)
(* tables of the run in traversal order, and the same table is returned    *)
(* (an empty one when nothing matched anywhere).                           *)
C12_ResultsCsv ==
    /\ Cardinality(ResultsWrites) <= 1
    /\ \A i \in ResultsWrites :
          /\ pc = "done"
          /\ \A j \in 1..Len(writes) : writes[j].folder = "output" => j <= i
    /\ pc = "done" =>
          /\ final_df = TraversalTable
          /\ ResultsWrites # {} <=> TraversalTable # <<>>
          /\ ResultsCsv \in DOMAIN outFiles <=> TraversalTable # <<>>
          /\ TraversalTable # <<>> => outFiles[ResultsCsv] = TraversalTable

\* a finished run whose results.csv holds the rows of two directories, the
\* three matches of the first before the single match of the second
C12_Witness ==
    /\ pc = "done"
    /\ ResultsCsv \in DOMAIN outFiles
    /\ Len(outFiles[ResultsCsv]) = 4
    /\ outFiles[ResultsCsv][1].ProjectName # outFiles[ResultsCsv][4].ProjectName
    /\ outFiles[ResultsCsv][2].keyword = "load"
    /\ outFiles[ResultsCsv][4].keyword = "fit"
    /\ Len(writes) >= 3

(* ---------------------------------------------------------------------- *)
OutputWrites == SelectSeq(writes, LAMBDA w : w.folder = "output")

(* C13: with the metrics analyzer under the Metrics role, whose            *)
(* check_library returns no match for any file, analyze_project yields no  *)
(* ClassificationRow and writes no per-directory file, and                 *)
(* analyze_projects_set returns an empty table and writes no results.csv.  *)
C13_MetricsAnalyzerHasNoRows ==
    analyzer_class = MLMetricsAnalyzer =>
        /\ role = METRICS
        /\ rows = <<>>
        /\ all_rows = <<>>
        /\ final_df = <<>>
        /\ outFiles = NoFiles
        /\ OutputWrites = <<>>

\* a finished run of the metrics analyzer that inspected two files with
\* source lines and wrote its metrics file
C13_Witness ==
    /\ analyzer_class = MLMetricsAnalyzer
    /\ pc = "done"
    /\ Len(trace) = 2
    /\ \A i \in 1..2 : Returned(trace[i]) /\ trace[i].out.ret.sloc_val > 0
    /\ MetricsCsv(1) \in DOMAIN metricsDir.files
    /\ outFiles = NoFiles

IsBlankOrComment(line) ==
    \/ \A k \in 1..Len(line) : line[k] \in Whitespace
    \/ \E k \in 1..Len(line) :
          /\ line[k] = "#"
          /\ \A j \in 1..(k - 1) : line[j] \in Whitespace

OnlyCommentsAndBlanks(text) ==
    \A k \in 1..Len(text) : IsBlankOrComment(text[k])

HasSourceLines(e) == Returned(e) /\ e.out.ret.sloc_val > 0

PairOf(e) == <<e.out.ret.mi_val, e.out.ret.sloc_val>>

SlocOf(e) == e.out.ret.sloc_val

BlockScoresOf(e) ==
    IF Returned(e)
    THEN [k \in 1..Len(e.out.ret.cc_blocks) |-> e.out.ret.cc_blocks[k].complexity]
    ELSE <<>>

DirectoryTrace == SelectSeq(trace, InDirectory)

(* C15: a file whose lines are all blank or comments has sloc 0; under the *)
(* Metrics role analyze_project records the (maintainability, sloc) pair   *)
(* and the sloc entry of a file iff its sloc is above 0, while the         *)
(* complexities of every qualifying file are added whatever its sloc.      *)
C15_SlocGate ==
    /\ \A i \in Inspections :
          (WasRead(trace[i].f) /\ OnlyCommentsAndBlanks(trace[i].f.text)) =>
              /\ Returned(trace[i])
              /\ trace[i].out.ret.sloc_val = 0
    /\ (role = METRICS /\ pc = "walk") =>
          /\ mi_weighted = SeqMap(PairOf, SelectSeq(DirectoryTrace, HasSourceLines))
          /\ sloc_list = SeqMap(SlocOf, SelectSeq(DirectoryTrace, HasSourceLines))
          /\ all_cc_values = Concat(SeqMap(BlockScoresOf, DirectoryTrace))

\* a Metrics walk over a commented-out file with one block and a file with
\* source lines: two complexities, one pair
C15_Witness ==
    /\ role = METRICS
    /\ pc = "walk"
    /\ Len(DirectoryTrace) = 2
    /\ Returned(DirectoryTrace[1])
    /\ OnlyCommentsAndBlanks(DirectoryTrace[1].f.text)
    /\ DirectoryTrace[1].out.ret.cc_blocks # <<>>
    /\ HasSourceLines(DirectoryTrace[2])
    /\ Len(all_cc_values) >= 2
    /\ Len(mi_weighted) = 1
    /\ sloc_list = <<DirectoryTrace[2].out.ret.sloc_val>>

(* ---------------------------------------------------------------------- *)
(* C16: when the input root directory does not exist the run fails with a  *)
(* not-found error before any directory is walked: analyze_project is      *)
(* never called, no output file is created or modified and                 *)
(* project_metrics is left as it was.                                      *)
C16_MissingRootFailsFirst ==
    /\ ~root_exists =>
          /\ pc \in {"idle", "FileNotFoundError"}
          /\ runs > 0 => pc = "FileNotFoundError"
          /\ rootSeen = <<>> /\ projSeen = <<>> /\ listed = 0
          /\ directory = <<>> /\ nwalk = 0 /\ trace = <<>>
          /\ outFiles = NoFiles /\ metricsDir = metricsInit /\ writes = <<>>
          /\ project_metrics = <<>>
    /\ pc = "FileNotFoundError" => ~root_exists

\* a Metrics run on a missing input folder has failed
C16_Witness ==
    /\ ~root_exists
    /\ role = METRICS
    /\ runs = 1
    /\ pc = "FileNotFoundError"

(* ---------------------------------------------------------------------- *)
(* C17: a call of analyze_projects_set either runs to completion or raises *)
(* one fatal error before the first analyze_project call, that is before   *)
(* any directory has been walked and any output file written; no error is  *)
(* raised once a directory walk has started.                               *)
C17_FailsOnlyBeforeWalking ==
    pc \in {"raised", "FileNotFoundError"} =>
        /\ directory = <<>>
        /\ trace = <<>>
        /\ writes = <<>>

(* ---------------------------------------------------------------------- *)
\* the steps run_pipeline has gone past, and those among them it ran
StepsPassed ==
    IF pipeline.raised # None THEN pipeline.next ELSE pipeline.next - 1

RanStep(k) == k <= StepsPassed /\ StepEnabled(pipeline.config, k)

CompletedStep(k) ==
    RanStep(k) /\ (pipeline.raised # None => k < pipeline.next)

DirExpected(k) == IF CompletedStep(k) THEN Some(OutputDirOf(k)) ELSE None

(* C18: run_pipeline never raises: when a step raises the PipelineResult   *)
(* returned has success = False and error_message = the text of the        *)
(* exception, no later step is executed and the output directories of the  *)
(* steps completed before are retained; when no step raises success is     *)
(* True and error_message None.                                            *)
C18_PipelineNeverRaises ==
    /\ pipeline.status # "raised"
    /\ pipeline.status \in {"running", "returned"} =>
          /\ pipeline.executed =
                SelectSeq(Steps, LAMBDA st :
                    \E k \in 1..Len(Steps) : Steps[k] = st /\ RanStep(k))
    /\ pipeline.status = "returned" =>
          /\ pipeline.result.producer_output_dir = DirExpected(3)
          /\ pipeline.result.consumer_output_dir = DirExpected(4)
          /\ pipeline.result.metrics_output_dir = DirExpected(5)
          /\ IF pipeline.raised # None
             THEN /\ pipeline.result.success = FALSE
                  /\ pipeline.result.error_message = Some(Str(pipeline.raised[1]))
                  /\ pipeline.executed # <<>>
                  /\ pipeline.executed[Len(pipeline.executed)]
                        = Steps[pipeline.next]
             ELSE /\ pipeline.result.success = TRUE
                  /\ pipeline.result.error_message = None
                  /\ pipeline.next = Len(Steps) + 1

\* the consumer analysis failed after the producer analysis had finished
C18_Witness ==
    /\ pipeline.status = "returned"
    /\ pipeline.raised # None
    /\ pipeline.next = 4
    /\ pipeline.config.run_metrics_analysis
    /\ pipeline.result.success = FALSE
    /\ pipeline.result.producer_output_dir = <<OutputDirOf(3)>>
    /\ pipeline.result.metrics_output_dir = <<>>
    /\ pipeline.result.error_message = << <<"Input folder not found">> >>

(* ---------------------------------------------------------------------- *)
\* the output location holds no run directory of the category
NoRunsOf(dirs) == dirs = None \/ dirs = Some({})

(* C19: find_complete_analyses returns an empty list and does not raise    *)
(* when the output location has no producer or consumer analysis           *)
(* directories, so that AppController can be constructed and               *)
(* _refresh_output_tree run over an empty output directory.                *)
C19_EmptyOutputIsFine ==
    /\ gui.status # "raised"
    /\ (gui.status = "constructed"
          /\ (NoRunsOf(gui.producer) \/ NoRunsOf(gui.consumer))) =>
          gui.analyses = <<>>

(* ---------------------------------------------------------------------- *)
\* the name metrics.csv
PlainMetricsCsv == <<"metrics.csv">>

(* C20: a Metrics-role analyze_projects_set run over at least one project  *)
(* directory writes the project metrics to a file named exactly            *)
(* metrics.csv in the output folder of the run, and no results.csv when    *)
(* nothing matched; a Producer or Consumer run creates no metrics.csv.     *)
C20_PlainMetricsCsv ==
    /\ (role = METRICS /\ pc = "done" /\ Len(ListedProjects) >= 1) =>
          /\ PlainMetricsCsv \in DOMAIN outFiles
          /\ outFiles[PlainMetricsCsv] = project_metrics
          /\ final_df = <<>> => ResultsCsv \notin DOMAIN outFiles
    /\ role # METRICS =>
          /\ PlainMetricsCsv \notin DOMAIN outFiles
          /\ PlainMetricsCsv \notin DOMAIN metricsDir.files

(* ---------------------------------------------------------------------- *)
\* the lines of a text that hold something else than blanks or a comment
SourceLineCount(text) ==
    Cardinality({k \in 1..Len(text) : ~IsBlankOrComment(text[k])})

(* C21: once the text of the file has been read the three metric signals   *)
(* are computed independently: failing cc_visit gives blocks = [] and      *)
(* leaves maintainability and sloc, failing mi_visit gives                 *)
(* maintainability = 0 and leaves blocks and sloc, sloc is the number of   *)
(* lines that after trimming are non-empty and do not start with # in all  *)
(* four combinations, and the values of check_library pass through.        *)
C21_IndependentSignals ==
    \A i \in Inspections :
        WasRead(trace[i].f) =>
            LET f == trace[i].f
                ret == trace[i].out.ret
            IN  /\ ~trace[i].out.raised
                /\ ret.cc_blocks = (IF f.cc.ok THEN f.cc.blocks ELSE <<>>)
                /\ ret.mi_val = (IF f.mi.ok THEN f.mi.val ELSE 0)
                /\ ret.sloc_val = SourceLineCount(f.text)
                /\ ret.libraries = f.check.libraries
                /\ ret.keywords = f.check.keywords
                /\ ret.list_load_keywords = f.check.list_load_keywords

\* cc_visit failed on a file of eight source lines with three matches,
\* mi_visit did not
C21_Witness ==
    \E i \in Inspections :
        /\ WasRead(trace[i].f)
        /\ ~trace[i].f.cc.ok
        /\ trace[i].f.mi.ok
        /\ trace[i].out.ret.cc_blocks = <<>>
        /\ trace[i].out.ret.mi_val = 7189
        /\ trace[i].out.ret.sloc_val = 8
        /\ Len(trace[i].out.ret.keywords) = 3

(* ---------------------------------------------------------------------- *)
\* the indices of the files named {integer}_metrics.csv
VersionedIndices(files) ==
    {IndexOfName(n) : n \in {m \in DOMAIN files : IsVersionedName(m)}}

(* C22: the next index is 1 + the largest integer N among the existing     *)
(* files of the metrics location named {integer}_metrics.csv, or 1 when    *)
(* there is none (gaps are not filled); files with other names have no     *)
(* influence on the index.                                                 *)
C22_NextIndexStep ==
    Len(MetricsWritten') > Len(MetricsWritten) =>
        LET w == MetricsWritten'[Len(MetricsWritten')]
            existing == VersionedIndices(metricsDir.files)
        IN  /\ IsVersionedName(w.name)
            /\ IndexOfName(w.name) =
                  (IF existing = {} THEN 1
                   ELSE 1 + (CHOOSE m \in existing : \A x \in existing : x <= m))

C22_NextIndexLaw == [][C22_NextIndexStep]_vars

(* ---------------------------------------------------------------------- *)
\* the rows the directory being walked has yielded
DirectoryTable == Concat(SeqMap(TableOfFile, DirectoryTrace))

\* "{project}_{component}_ml_{role}.csv"
DirectoryFileName ==
    project \o <<"_">> \o directory \o <<"_", "ml", "_", role, ".csv">>

SameFileIn(n, before, after) ==
    /\ n \in DOMAIN before <=> n \in DOMAIN after
    /\ n \in DOMAIN before => after[n] = before[n]

(* C23: analyze_project writes "{project}_{component}_ml_{role}.csv" under *)
(* the output folder iff the scanned directory yielded at least one        *)
(* ClassificationRow, exactly once and after the whole directory has been  *)
(* walked; with zero rows no file is created or modified.                  *)
C23_DirectoryFileStep ==
    /\ (pc = "walk" /\ pc' = "walk") =>
          /\ outFiles' = outFiles
          /\ writes' = writes
    /\ (pc = "walk" /\ pc' = "components") =>
          IF DirectoryTable # <<>>
          THEN /\ writes' = Append(writes, [folder |-> "output",
                                            name |-> DirectoryFileName])
               /\ DirectoryFileName \in DOMAIN outFiles'
               /\ outFiles'[DirectoryFileName] = DirectoryTable
               /\ \A n \in (DOMAIN outFiles \cup DOMAIN outFiles')
                         \ {DirectoryFileName} :
                     SameFileIn(n, outFiles, outFiles')
          ELSE /\ outFiles' = outFiles
               /\ writes' = writes
    /\ pc # "walk" =>
          \A n \in (DOMAIN outFiles \cup DOMAIN outFiles') \ {ResultsCsv} :
              SameFileIn(n, outFiles, outFiles')

C23_DirectoryFile == [][C23_DirectoryFileStep]_vars

\* two directories were walked: the first gave rows and a file, the second
\* a qualifying file without match and no file
C23_Witness ==
    /\ pc = "components"
    /\ Len(SelectSeq(projSeen, IsDir)) = 2
    /\ Len(trace) = 2
    /\ trace[1].directory # trace[2].directory
    /\ MatchCount(trace[1]) > 0
    /\ Returned(trace[2]) /\ MatchCount(trace[2]) = 0
    /\ Len(OutputWrites) = 1
    /\ Cardinality(DOMAIN outFiles) = 1

(* ---------------------------------------------------------------------- *)

\* the metric samples and rows gathered so far, at every level
Gathered ==
    <<rows, all_cc_values, mi_weighted, sloc_list, all_rows, project_cc,
      project_mi, project_sloc>>

(* C24: analyze_projects_set calls analyze_project exactly once for every  *)
(* pair of a directory directly under the input root and a directory       *)
(* directly under it, and for no other path: entries that are not          *)
(* directories are skipped at both levels, so that files lying directly in *)
(* the root or in a project give no row and no metric sample.              *)
C24_CallsStep ==
    \* an entry of the root: a project starts iff it is a directory
    /\ Len(rootSeen') > Len(rootSeen) =>
          /\ pc' # "walk"
          /\ trace' = trace
          /\ all_rows' = all_rows
          /\ IF Last(rootSeen').isdir
             THEN /\ pc' = "components"
                  /\ project' = Last(rootSeen').name
             ELSE /\ pc' = pc
                  /\ Gathered' = Gathered
    \* an entry of a project: a call starts iff it is a directory
    /\ Len(projSeen') > Len(projSeen) =>
          /\ trace' = trace
          /\ all_rows' = all_rows
          /\ IF Last(projSeen').isdir
             THEN /\ pc' = "walk"
                  /\ directory' = Last(projSeen').name
                  /\ project' = project
                  /\ rows' = <<>>
             ELSE /\ pc' = pc
                  /\ Gathered' = Gathered
    \* a call starts on a listed directory of a listed directory only
    /\ (pc # "walk" /\ pc' = "walk") =>
          /\ Len(projSeen') = Len(projSeen) + 1
          /\ Last(projSeen').isdir
          /\ rootSeen # <<>> /\ Last(rootSeen).isdir
          /\ project = Last(rootSeen).name
    \* files are inspected inside a call only, under its directory
    /\ trace' # trace =>
          /\ pc = "walk"
          /\ Last(trace').project = project
          /\ Last(trace').directory = directory
          /\ Last(projSeen).isdir /\ Last(projSeen).name = directory
          /\ Last(trace').where =
                input_folder \o <<"/">> \o project \o <<"/">> \o directory
                    \o <<"/">> \o FileName(nwalk + 1)

C24_Calls == [][C24_CallsStep]_vars

\* a run that met a file in the root, a file in the project and one
\* component directory, and inspected a file with a match in it
C24_Witness ==
    /\ pc = "done"
    /\ Len(rootSeen) = 2 /\ Len(SelectSeq(rootSeen, IsDir)) = 1
    /\ Len(trace) >= 1
    /\ \A i \in 1..Len(trace) : trace[i].project = trace[1].project
                                 /\ trace[i].directory = trace[1].directory
    /\ final_df # <<>>
    /\ Len(OutputWrites) = 2

(* ---------------------------------------------------------------------- *)
\* the flag of a step in a configuration, and its place in the order
FlagOf(config, st) ==
    CASE st = "cloner" -> config.run_cloner
      [] st = "cloner_check" -> config.run_cloner_check
      [] st = "producer" -> config.run_producer_analysis
      [] st = "consumer" -> config.run_consumer_analysis
      [] st = "metrics" -> config.run_metrics_analysis

PlaceOf(st) ==
    CASE st = "cloner" -> 1
      [] st = "cloner_check" -> 2
      [] st = "producer" -> 3
      [] st = "consumer" -> 4
      [] st = "metrics" -> 5

\* the directory field of an analysis step in a result
DirFieldOf(result, st) ==
    CASE st = "producer" -> result.producer_output_dir
      [] st = "consumer" -> result.consumer_output_dir
      [] st = "metrics" -> result.metrics_output_dir

\* the step has been executed and has returned
HasReturned(p, st) ==
    \E i \in 1..Len(p.executed) :
        /\ p.executed[i] = st
        /\ (p.raised # None => i < Len(p.executed))

C25_State(p) ==
    p.status # "none" =>
        \* in the fixed order, each at most once, enabled steps only
        /\ \A i, j \in 1..Len(p.executed) :
               i < j => PlaceOf(p.executed[i]) < PlaceOf(p.executed[j])
        /\ \A i \in 1..Len(p.executed) : FlagOf(p.config, p.executed[i])
        \* a run that ends without an error has taken every enabled step
        /\ (p.status = "returned" /\ p.raised = None) =>
               \A k \in 1..Len(Steps) :
                   FlagOf(p.config, Steps[k]) =>
                       \E i \in 1..Len(p.executed) : p.executed[i] = Steps[k]
        \* the directory fields
        /\ \A st \in {"producer", "consumer", "metrics"} :
               /\ ~FlagOf(p.config, st) => DirFieldOf(p.result, st) = None
               /\ HasReturned(p, st) =>
                      DirFieldOf(p.result, st) = Some(OutputDirOf(PlaceOf(st)))
               /\ ~HasReturned(p, st) => DirFieldOf(p.result, st) = None

(* C25: run_pipeline executes the enabled steps in the fixed order cloner, *)
(* cloner check, producer analysis, consumer analysis, metrics analysis,   *)
(* each at most once per call; a disabled step is never executed and its   *)
(* output directory in the result stays None, while each executed analysis *)
(* step stores the directory its facade returned in its own field.         *)
C25_OrderStep ==
    /\ C25_State(pipeline')
    /\ pipeline.status = "running" =>
          /\ pipeline'.config = pipeline.config
          /\ \/ pipeline'.executed = pipeline.executed
             \/ /\ pipeline.next <= Len(Steps)
                /\ pipeline'.executed =
                      Append(pipeline.executed, Steps[pipeline.next])

C25_StepOrder == [][C25_OrderStep]_vars

\* a run without the cloner check and the consumer analysis, at its end
C25_Witness ==
    /\ pipeline.status = "returned"
    /\ pipeline.raised = None
    /\ pipeline.executed = <<"cloner", "producer", "metrics">>
    /\ pipeline.result.success
    /\ pipeline.result.producer_output_dir = Some(OutputDirOf(3))
    /\ pipeline.result.consumer_output_dir = None
    /\ pipeline.result.metrics_output_dir = Some(OutputDirOf(5))

(* ---------------------------------------------------------------------- *)
IsPrefix(s, t) == Len(s) <= Len(t) /\ \A i \in 1..Len(s) : s[i] = t[i]

\* the metrics files a step has written
NewMetricsFiles ==
    { n \in DOMAIN metricsDir'.files :
        \/ ~metricsDir.exists
        \/ n \notin DOMAIN metricsDir.files
        \/ metricsDir.files[n] # metricsDir'.files[n] }

(* C26: project_metrics is reset only at construction: no operation        *)
(* removes or changes a record once appended, so over successive calls of  *)
(* analyze_projects_set on one Metrics analyzer it only grows, and the     *)
(* metrics file the k-th call writes holds the records of all k calls in   *)
(* the order they were appended.                                           *)
C26_AccumulatorStep ==
    /\ IsPrefix(project_metrics, project_metrics')
    /\ role' = METRICS => project_metrics' = Concat(calls')
    /\ Len(calls') = runs'
    /\ metricsDir' # metricsDir =>
          /\ pc = "projects" /\ pc' = "done"
          /\ Cardinality(NewMetricsFiles) = 1
          /\ \A n \in NewMetricsFiles :
                /\ metricsDir'.files[n] = Concat(calls)
                /\ ~metricsDir.exists \/ n \notin DOMAIN metricsDir.files
    \* the files of the calls before are left as they were written
    /\ metricsDir.exists =>
          \A n \in DOMAIN metricsDir.files :
              /\ n \in DOMAIN metricsDir'.files
              /\ metricsDir'.files[n] = metricsDir.files[n]

C26_Accumulator == [][C26_AccumulatorStep]_vars

\* two calls that each met one project: the second file holds both records
C26_Witness ==
    /\ pc = "done"
    /\ runs = 2
    /\ Len(calls) = 2 /\ Len(calls[1]) = 1 /\ Len(calls[2]) = 1
    /\ metricsDir.exists
    /\ MetricsCsv(1) \in DOMAIN metricsDir.files
    /\ MetricsCsv(2) \in DOMAIN metricsDir.files
    /\ metricsDir.files[MetricsCsv(1)] = calls[1]
    /\ metricsDir.files[MetricsCsv(2)] = calls[1] \o calls[2]

(* ---------------------------------------------------------------------- *)
\* the file an analyzer inside _save_metrics_csv has written
FileOfSaver(i) == MetricsCsv(savers[i].next_index)

(* C27: when two Metrics analyzers flush to the same output directory and  *)
(* the steps of their _save_metrics_csv calls (list the metrics files,     *)
(* compute the next index, write the file) interleave in any order, they   *)
(* write two distinct metrics files and neither write overwrites the file  *)
(* of the other.                                                           *)
C27_TwoFiles ==
    (Len(savers) = 2 /\ savers[1].pc = "written" /\ savers[2].pc = "written")
        => /\ FileOfSaver(1) # FileOfSaver(2)
           /\ metricsDir.files[FileOfSaver(1)] = savers[1].metrics
           /\ metricsDir.files[FileOfSaver(2)] = savers[2].metrics

(* ---------------------------------------------------------------------- *)
\* the calls of _on_pipeline_complete made for the k-th thread
CompletesOf(k) ==
    {i \in 1..Len(ctl.completes) : ctl.completes[i].thread = k}

ThreadStarted(k) == Len(ctl.threads) >= k

(* C28: after _on_start_pipeline has started the pipeline thread, provided *)
(* the pipeline terminates and the window keeps running the scheduled      *)
(* polls, _on_pipeline_complete is eventually invoked, exactly once for    *)
(* that start, and it sets the config view back to the not-running state.  *)
C28_CompleteStep ==
    ctl'.completes # ctl.completes =>
        /\ ctl'.completes = Append(ctl.completes, Last(ctl'.completes))
        /\ ctl'.start_button = "normal"
        /\ Last(ctl'.completes).thread = Len(ctl.threads)
        /\ ctl.threads # <<>>

C28_CompletesOnce ==
    /\ [](\A k \in 1..MaxStarts : Cardinality(CompletesOf(k)) <= 1)
    /\ [][C28_CompleteStep]_vars
    /\ \A k \in 1..MaxStarts :
          ThreadStarted(k) ~> (Cardinality(CompletesOf(k)) = 1)

\* the second pipeline has been completed after the first
C28_Witness ==
    /\ Len(ctl.threads) = 2
    /\ Len(ctl.completes) = 2
    /\ ctl.completes[1].thread = 1
    /\ ctl.completes[2].thread = 2
    /\ ctl.start_button = "normal"
    /\ ctl.scheduled = FALSE

\* the pipeline threads that are alive
AliveThreads == {i \in DOMAIN ctl.threads : ctl.threads[i] = "alive"}

(* C29: whenever a pipeline thread is alive the config view is in the      *)
(* running state: the state is set before the thread starts and cleared    *)
(* only by _on_pipeline_complete, which runs only once the thread is no    *)
(* longer alive and reads the _result that thread wrote; hence, with start *)
(* requests arriving only while the start button is enabled, at most one   *)
(* pipeline thread is alive at any time.                                   *)
C29_RunningStep ==
    /\ AliveThreads' # {} => ctl'.start_button = "disabled"
    /\ Cardinality(AliveThreads') <= 1
    /\ Len(ctl'.threads) > Len(ctl.threads) => ctl'.start_button = "disabled"
    /\ (ctl.start_button = "disabled" /\ ctl'.start_button = "normal") =>
          /\ Len(ctl'.completes) = Len(ctl.completes) + 1
          /\ AliveThreads = {}
          /\ Last(ctl'.completes).result # None
          /\ Last(ctl'.completes).result[1].thread = Len(ctl.threads)

C29_RunningWhileAlive == [][C29_RunningStep]_vars

\* a second thread is alive after the first one has been completed
C29_Witness ==
    /\ Len(ctl.threads) = 2
    /\ ctl.threads[1] = "dead"
    /\ ctl.threads[2] = "alive"
    /\ Len(ctl.completes) = 1
    /\ ctl.start_button = "disabled"
    /\ ctl.scheduled

(* ---------------------------------------------------------------------- *)
\* the per-directory file of the i-th call of analyze_project
FileOfCall(i) == DirectoryCsv(calls[i].project, calls[i].directory, role)

(* C30: within one run, distinct (project, component) pairs are written to *)
(* distinct per-directory files, so that the file written for one          *)
(* component directory is never overwritten by the file of a component     *)
(* directory scanned later in the same run.                                *)
C30_DistinctFiles ==
    \A i, j \in 1..Len(calls) :
        (i < j /\ calls[i].df # <<>> /\ calls[j].df # <<>>) =>
            /\ FileOfCall(i) # FileOfCall(j)
            /\ outFiles[FileOfCall(i)] = calls[i].df

====
